---- MODULE Spec2Model ----
(***************************************************************************)
(* Model of the Lambda endpoint pool manager                               *)
(* (src/src/services/lambda_manager.py, class LambdaManager).              *)
(*                                                                         *)
(* The manager runs on one asyncio event loop: a coroutine runs without    *)
(* interruption until it reaches an await that really suspends.  The two   *)
(* suspension points of the manager are the configuration fetch            *)
(* (db.get_lambda_configs, line 30) and the HTTP POST to a relay           *)
(* (line 172).  `running` names the coroutine that holds the event loop;   *)
(* another coroutine is resumed only when `running` is 0.                  *)
(*                                                                         *)
(* Python strings are modelled as sequences of one-character strings, so   *)
(* that str.strip() is computed and not assumed.                           *)
(*                                                                         *)
(* The second half models the relay function                               *)
(* (src/lambda/sora_create_task_lambda.py): solve_pow under SpecPow,       *)
(* build_openai_sentinel_token under SpecToken and lambda_handler under    *)
(* SpecLambda.  SHA3-512 is an arbitrary function from the hashed bytes    *)
(* to short digests; base64, hex and JSON are computed.                    *)
(***************************************************************************)
EXTENDS Integers, Sequences, FiniteSets, TLC

\* ------------------------------------------------------------------ bounds
NumCallers == 2
MaxTime == 61
MaxCalls == 2
LogLen == 6

\* --------------------------------------------------------------- constants
cache_ttl == 60

Callers == 1..NumCallers
SeqCallers == {1}

\* ----------------------------------------------------------------- strings
NoneStr == <<"None">>
Whitespace == {" "}

RECURSIVE LStrip(_)
LStrip(s) == IF s # <<>> /\ Head(s) \in Whitespace THEN LStrip(Tail(s)) ELSE s

RECURSIVE RStrip(_)
RStrip(s) ==
  IF s # <<>> /\ s[Len(s)] \in Whitespace THEN RStrip(SubSeq(s, 1, Len(s) - 1)) ELSE s

Strip(s) == RStrip(LStrip(s))

\* Python truthiness of an Optional[str]
Truthy(s) == s # NoneStr /\ s # <<>>

\* ------------------------------------------------------ configuration rows
Row(en, url, key) ==
  [lambda_enabled |-> en, lambda_api_url |-> url, lambda_api_key |-> key]

RowA == Row(TRUE, <<"a">>, <<"1">>)
RowB == Row(TRUE, <<" ", "b", " ">>, <<"2">>)
RowC == Row(TRUE, <<"c">>, <<"3">>)
RowNoKey == Row(TRUE, <<"d">>, NoneStr)
RowEmptyKey == Row(TRUE, <<"d">>, <<>>)
RowOff == Row(FALSE, <<"e">>, <<"5">>)
RowNoUrl == Row(TRUE, NoneStr, <<"6">>)

\* The configurations the source (the database) may hold.
DbConfigs ==
  { <<>>,
    <<RowOff>>,
    <<RowNoUrl>>,
    <<RowNoKey>>,
    <<RowA>>,
    <<RowA, RowOff, RowB>>,
    <<RowA, RowEmptyKey, RowB, RowC>> }

\* The configurations of the concurrent specification.
DbConfigsConc ==
  { <<RowOff>>,
    <<RowA>>,
    <<RowA, RowOff, RowB>> }

\* The answers of a relay in the concurrent specifications.
ConcKinds == {"ok_id", "http500"}

\* The answers of a relay in the sequential specification.
SeqKinds == {"ok_id", "neterr", "http500", "badjson"}

RECURSIVE GetUrls(_)
GetUrls(configs) ==
  IF configs = <<>> THEN <<>>
  ELSE LET cfg == Head(configs) IN
       IF ~cfg.lambda_enabled THEN GetUrls(Tail(configs))
       ELSE IF ~Truthy(cfg.lambda_api_url) THEN GetUrls(Tail(configs))
       ELSE <<Strip(cfg.lambda_api_url)>> \o GetUrls(Tail(configs))

RECURSIVE GetEndpoints(_)
GetEndpoints(configs) ==
  IF configs = <<>> THEN <<>>
  ELSE LET cfg == Head(configs)
           api_key == IF Truthy(cfg.lambda_api_key) THEN cfg.lambda_api_key ELSE <<>>
       IN
       IF ~cfg.lambda_enabled THEN GetEndpoints(Tail(configs))
       ELSE IF ~Truthy(cfg.lambda_api_url) THEN GetEndpoints(Tail(configs))
       ELSE IF api_key = <<>> THEN GetEndpoints(Tail(configs))
       ELSE <<[url |-> Strip(cfg.lambda_api_url), key |-> api_key]>>
            \o GetEndpoints(Tail(configs))

\* An is_enabled that asks for a usable endpoint.
AnyUsable(configs) == GetEndpoints(configs) # <<>>

AnyEnabled(configs) == \E i \in 1..Len(configs) : configs[i].lambda_enabled

\* ------------------------------------------------------------------ relays
\* What a relay answers to the POST of _post_create_task.
RelayKinds == {"ok_id", "ok_task_id", "neterr", "http500", "badjson", "noid"}

Response(kind, url) ==
  CASE kind = "ok_id" ->
         [raised |-> FALSE, status_code |-> 200, is_json |-> TRUE,
          id |-> <<"task-">> \o url, task_id |-> NoneStr, text |-> <<"{..}">>]
    [] kind = "ok_task_id" ->
         [raised |-> FALSE, status_code |-> 200, is_json |-> TRUE,
          id |-> <<>>, task_id |-> <<"task-">> \o url, text |-> <<"{..}">>]
    [] kind = "neterr" ->
         [raised |-> TRUE, status_code |-> 0, is_json |-> FALSE,
          id |-> NoneStr, task_id |-> NoneStr, text |-> <<"timeout ">> \o url]
    [] kind = "http500" ->
         [raised |-> FALSE, status_code |-> 500, is_json |-> TRUE,
          id |-> <<"task-">> \o url, task_id |-> NoneStr, text |-> <<"oops ">> \o url]
    [] kind = "badjson" ->
         [raised |-> FALSE, status_code |-> 200, is_json |-> FALSE,
          id |-> NoneStr, task_id |-> NoneStr, text |-> <<"<html>">>]
    [] OTHER ->
         [raised |-> FALSE, status_code |-> 200, is_json |-> TRUE,
          id |-> NoneStr, task_id |-> <<>>, text |-> <<"{}">>]

Ok(v) == [ok |-> TRUE, value |-> v]
Err(e) == [ok |-> FALSE, value |-> e]

StatusStr(n) == IF n = 500 THEN <<"500">> ELSE IF n = 200 THEN <<"200">> ELSE <<"?">>

\* _post_create_task: the task id, or the exception the call raises.
PostCreateTaskIdOnly(resp) ==
  IF resp.raised THEN Err(resp.text)
  ELSE IF resp.status_code # 200
    THEN Err(<<"HTTP ">> \o StatusStr(resp.status_code) \o <<": ">> \o resp.text)
  ELSE IF ~resp.is_json THEN Err(<<"Invalid JSON response">>)
  ELSE IF ~Truthy(resp.id) THEN Err(<<"No task ID in response">>)
  ELSE Ok(resp.id)

PostCreateTask(resp) ==
  IF resp.raised THEN Err(resp.text)
  ELSE IF resp.status_code # 200
    THEN Err(<<"HTTP ">> \o StatusStr(resp.status_code) \o <<": ">> \o resp.text)
  ELSE IF ~resp.is_json THEN Err(<<"Invalid JSON response">>)
  ELSE LET task_id == IF Truthy(resp.id) THEN resp.id ELSE resp.task_id IN
       IF ~Truthy(task_id) THEN Err(<<"No task ID in response">>)
       ELSE Ok(task_id)

\* ------------------------------------------------------------------- state
VARIABLES
  db,          \* the configuration source: the rows get_lambda_configs returns
  relay,       \* url -> kind of answer of that relay (sequential specification)
  now,         \* time.time()
  cache,       \* _config_cache: <<>> is None, <<configs>> a cached list
  cacheTime,   \* _cache_time
  cursor,      \* _current_index
  lock,        \* _lock: 0 when free, else the holder
  running,     \* the coroutine holding the event loop, 0 when none
  call,        \* per caller: the frame of the operation it is in
  calls,       \* number of operations started (concurrent specifications)
  track,       \* which history is recorded: "seq", "conc" or "cache"
  cacheReadAt, \* history: when the cached list was read from the source
  cacheStale,  \* history: the cached list was read before the last invalidate_cache
  lastLen,     \* history: size of the pool of the most recent selection
  lastRead,    \* history: cursor value read by the most recent selection
  selLog,      \* history: urls returned by the last LogLen selections
  environ,     \* relay function: os.environ of its process
  event,       \* relay function: the event lambda_handler is invoked with
  handler,     \* relay function: the frame of lambda_handler
  net,         \* relay function: the requests post_json has sent, in order
  solver,      \* a call of solve_pow: its arguments, then its result
  assembler    \* a call of build_openai_sentinel_token: arguments, then result

mvars == <<db, relay, now, cache, cacheTime, cursor, lock, running, call, calls,
           track, cacheReadAt, cacheStale, lastLen, lastRead, selLog>>
lvars == <<environ, event, handler, net, solver, assembler>>
vars == <<mvars, lvars>>

\* The relay function is another process: the manager specifications leave it
\* out, and the relay specifications leave the manager out.
Absent == <<>>
NoRelayFunction ==
  /\ environ = Absent /\ event = Absent /\ handler = Absent
  /\ net = Absent /\ solver = Absent /\ assembler = Absent

NoEndpoint == [url |-> NoneStr, key |-> NoneStr]

Idle ==
  [pc |-> "idle", op |-> "none", site |-> "none",
   current_time |-> 0, fetched |-> <<>>, configs |-> <<>>,
   n |-> 0, attempt |-> 0, last_error |-> NoneStr, endpoint |-> NoEndpoint,
   result |-> [kind |-> "none", status_code |-> 0, value |-> <<>>],
   \* history fields
   fetchedAt |-> 0, readAt |-> 0, servedAt |-> 0,
   hit |-> FALSE, overtaken |-> FALSE, stale |-> FALSE, attempted |-> <<>>,
   latest |-> <<>>]

Returned(v) == [kind |-> "return", status_code |-> 200, value |-> v]
HTTPException(code, detail) == [kind |-> "raise", status_code |-> code, value |-> detail]

NotEnabledMsg == <<"Lambda is not enabled">>
NoUrlsMsg == <<"No Lambda URLs configured">>
NoKeyMsg == <<"Lambda API key not configured">>
AllFailedMsg(last_error) ==
  <<"All Lambda endpoints failed. Last error: ">> \o last_error

\* History of the cache is recorded under the cache specification only.
At(t) == IF track = "cache" THEN t ELSE 0
Rows(r) == IF track = "cache" THEN r ELSE <<>>
Flag(b) == track = "cache" /\ b

\* ------------------------------------------------------------- _get_config
CacheExpired(t) == t - cacheTime > cache_ttl

NeedsFetch(t) == cache = <<>> \/ CacheExpired(t)

\* The frame of a caller that enters _get_config and will continue at `s`:
\* served from the cache without suspending, or suspended on the fetch.
EnterGetConfig(c, s) ==
  IF NeedsFetch(now)
  THEN [c EXCEPT !.pc = "fetch", !.site = s, !.current_time = now]
  ELSE [c EXCEPT !.pc = s, !.configs = cache[1],
                 !.servedAt = At(now), !.readAt = cacheReadAt, !.hit = Flag(TRUE),
                 !.stale = cacheStale]

\* A refresh that stamps the cache when the fetch returns.
CacheTimeAtReturn(c) == now

\* The value _get_config stores in _cache_time (line 31).
CacheTimeStored(c) == c.current_time

\* The frame once the served configuration has been used: the locals of
\* _get_config are gone and the history of the access is dropped.
Used(c) ==
  [c EXCEPT !.configs = <<>>, !.servedAt = 0, !.readAt = 0, !.hit = FALSE,
            !.stale = FALSE]

Suspended(c) == c.pc \in {"fetch", "fetched", "post"}

Step(p, c) ==
  /\ call' = [call EXCEPT ![p] = c]
  /\ running' = IF Suspended(c) THEN 0 ELSE p

\* ------------------------------------------------------- get_next_endpoint
\* A selection that reads one past the cursor.
CursorReadNext(p) == cursor + 1

\* A selection that uses the value the previous selection read.
CursorReadStale(p) == lastRead

\* Line 72: the cursor is read inside the critical section.
CursorRead(p) == cursor

\* A cursor that is not advanced.
AdvanceLost(c, len) == c % len

\* A cursor that is advanced without wrapping around.
AdvanceNoWrap(c, len) == c + 1

\* Line 73.
Advance(c, len) == (c + 1) % len

Push(log, u) ==
  LET l == log \o <<u>> IN
  IF track # "seq" THEN log
  ELSE IF Len(l) > LogLen THEN SubSeq(l, 2, Len(l)) ELSE l

\* A selection that keeps the lock.
SelectHolding(p, endpoints, endpoint) ==
  /\ lock = 0
  /\ endpoint = endpoints[(CursorRead(p) % Len(endpoints)) + 1]
  /\ cursor' = Advance(cursor, Len(endpoints))
  /\ lock' = p
  /\ lastLen' = Len(endpoints)
  /\ lastRead' = CursorRead(p)
  /\ selLog' = Push(selLog, endpoint.url)

\* Lines 70-74: under the lock, select and advance.  The block holds no
\* await, so the lock is taken and released within one step.
Select(p, endpoints, endpoint) ==
  /\ lock = 0
  /\ endpoint = endpoints[(CursorRead(p) % Len(endpoints)) + 1]
  /\ cursor' = Advance(cursor, Len(endpoints))
  /\ lock' = 0
  /\ lastLen' = Len(endpoints)
  /\ lastRead' = CursorRead(p)
  /\ selLog' = Push(selLog, endpoint.url)

\* -------------------------------------------------------------- operations
\* An operation starts in the lowest idle frame (callers are interchangeable).
Start(p) ==
  /\ running = 0
  /\ call[p].pc = "idle"
  /\ \A q \in Callers : q < p => call[q].pc # "idle"

CallGetNextEndpoint(p) ==
  /\ Start(p)
  /\ Step(p, EnterGetConfig([Idle EXCEPT !.op = "get_next_endpoint"], "gne"))
  /\ UNCHANGED <<db, relay, now, cache, cacheTime, cursor, lock, track,
                 cacheReadAt, cacheStale, lastLen, lastRead, selLog>>
  /\ UNCHANGED lvars

CallIsEnabled(p) ==
  /\ Start(p)
  /\ Step(p, EnterGetConfig([Idle EXCEPT !.op = "is_enabled"], "is_enabled"))
  /\ UNCHANGED <<db, relay, now, cache, cacheTime, cursor, lock, track,
                 cacheReadAt, cacheStale, lastLen, lastRead, selLog>>
  /\ UNCHANGED lvars

CallCreateTask(p) ==
  /\ Start(p)
  /\ Step(p, EnterGetConfig([Idle EXCEPT !.op = "create_task"], "ct_enabled"))
  /\ UNCHANGED <<db, relay, now, cache, cacheTime, cursor, lock, track,
                 cacheReadAt, cacheStale, lastLen, lastRead, selLog>>
  /\ UNCHANGED lvars

\* invalidate_cache, lines 192-195.
InvalidateCache ==
  /\ running = 0
  /\ cache' = <<>>
  /\ cacheTime' = 0
  /\ cacheStale' = FALSE
  /\ cacheReadAt' = 0
  /\ call' = [p \in Callers |->
                IF call[p].pc = "fetched"
                THEN [call[p] EXCEPT !.overtaken = Flag(TRUE)]
                ELSE call[p]]
  /\ UNCHANGED <<db, relay, now, cursor, lock, running, calls, track,
                 lastLen, lastRead, selLog>>
  /\ UNCHANGED lvars

\* The configuration source answers the query of line 30.  Every caller
\* whose answer waits to be picked up notes the rows of this, later, read.
DbRead(p) ==
  /\ running = 0
  /\ call[p].pc = "fetch"
  /\ call' = [q \in Callers |->
                IF q = p
                THEN [call[q] EXCEPT !.pc = "fetched", !.fetched = db,
                                     !.fetchedAt = At(now), !.latest = Rows(db)]
                ELSE IF call[q].pc = "fetched"
                THEN [call[q] EXCEPT !.latest = Rows(db)]
                ELSE call[q]]
  /\ UNCHANGED <<db, relay, now, cache, cacheTime, cursor, lock, running, calls,
                 track, cacheReadAt, cacheStale, lastLen, lastRead, selLog>>
  /\ UNCHANGED lvars

\* The caller resumes after the await of line 30: lines 30-33.
FetchReturn(p) ==
  /\ running = 0
  /\ call[p].pc = "fetched"
  /\ cache' = <<call[p].fetched>>
  /\ cacheTime' = CacheTimeStored(call[p])
  /\ cacheReadAt' = call[p].fetchedAt
  /\ cacheStale' = call[p].overtaken
  /\ Step(p, [call[p] EXCEPT !.pc = call[p].site, !.site = "none",
                             !.configs = call[p].fetched,
                             !.servedAt = At(call[p].current_time),
                             !.readAt = call[p].fetchedAt,
                             !.current_time = 0, !.fetched = <<>>,
                             !.fetchedAt = 0, !.overtaken = FALSE,
                             !.latest = <<>>])
  /\ UNCHANGED <<db, relay, now, cursor, lock, calls, track,
                 lastLen, lastRead, selLog>>
  /\ UNCHANGED lvars

\* get_next_endpoint, lines 66-74, called on its own.
GneSelect(p) ==
  /\ running = p
  /\ call[p].pc = "gne"
  /\ LET endpoints == GetEndpoints(call[p].configs) IN
     IF endpoints = <<>>
     THEN /\ Step(p, [Used(call[p]) EXCEPT !.pc = "done",
                                              !.result = Returned(NoEndpoint)])
          /\ UNCHANGED <<cursor, lock, lastLen, lastRead, selLog>>
     ELSE \E i \in 1..Len(endpoints) :
            /\ Select(p, endpoints, endpoints[i])
            /\ Step(p, [Used(call[p]) EXCEPT !.pc = "done",
                                             !.result = Returned(endpoints[i])])
  /\ UNCHANGED <<db, relay, now, cache, cacheTime, calls, track,
                 cacheReadAt, cacheStale>>
  /\ UNCHANGED lvars

\* is_enabled, line 85, called on its own.
IsEnabledReturn(p) ==
  /\ running = p
  /\ call[p].pc = "is_enabled"
  /\ Step(p, [Used(call[p]) EXCEPT !.pc = "done",
                                   !.result = Returned(AnyEnabled(call[p].configs))])
  /\ UNCHANGED <<db, relay, now, cache, cacheTime, cursor, lock, calls, track,
                 cacheReadAt, cacheStale, lastLen, lastRead, selLog>>
  /\ UNCHANGED lvars

\* create_task, lines 112-115: the is_enabled check.
CtEnabled(p) ==
  /\ running = p
  /\ call[p].pc = "ct_enabled"
  /\ IF ~AnyEnabled(call[p].configs)
     THEN Step(p, [Used(call[p]) EXCEPT !.pc = "done",
                                        !.result = HTTPException(400, NotEnabledMsg)])
     ELSE Step(p, EnterGetConfig(Used(call[p]), "ct_config"))
  /\ UNCHANGED <<db, relay, now, cache, cacheTime, cursor, lock, calls, track,
                 cacheReadAt, cacheStale, lastLen, lastRead, selLog>>
  /\ UNCHANGED lvars

\* A loop that keeps the first error instead of the last.
RecordFirst(last_error, e) == IF last_error = NoneStr THEN e ELSE last_error

\* What the loop records when an attempt raises `e` (line 136).
RecordError(last_error, e) == e

\* A loop that gives up one attempt early.
LoopHeadShort(c) ==
  IF c.attempt < c.n - 1
  THEN EnterGetConfig(c, "ct_gne")
  ELSE [c EXCEPT !.pc = "done",
                 !.result = HTTPException(502, AllFailedMsg(c.last_error))]

\* A loop that lets the error of a failed attempt out.
LoopHeadReraise(c) ==
  IF c.last_error # NoneStr
  THEN [c EXCEPT !.pc = "done", !.result = HTTPException(500, c.last_error)]
  ELSE IF c.attempt < c.n
  THEN EnterGetConfig(c, "ct_gne")
  ELSE [c EXCEPT !.pc = "done",
                 !.result = HTTPException(502, AllFailedMsg(c.last_error))]

\* The head of the loop of line 126 and the call of line 127, or lines 141-143.
LoopHead(c) ==
  IF c.attempt < c.n
  THEN EnterGetConfig(c, "ct_gne")
  ELSE [c EXCEPT !.pc = "done",
                 !.result = HTTPException(502, AllFailedMsg(c.last_error))]

\* create_task, lines 116-127: the configuration checks and the loop's entry.
CtConfig(p) ==
  /\ running = p
  /\ call[p].pc = "ct_config"
  /\ LET configs == call[p].configs
         urls == GetUrls(configs)
         endpoints == GetEndpoints(configs)
     IN
     IF urls = <<>>
     THEN Step(p, [Used(call[p]) EXCEPT !.pc = "done",
                                        !.result = HTTPException(400, NoUrlsMsg)])
     ELSE IF endpoints = <<>>
     THEN Step(p, [Used(call[p]) EXCEPT !.pc = "done",
                                        !.result = HTTPException(400, NoKeyMsg)])
     ELSE Step(p, LoopHead([Used(call[p]) EXCEPT !.n = Len(endpoints),
                                                !.attempt = 0,
                                                !.last_error = NoneStr]))
  /\ UNCHANGED <<db, relay, now, cache, cacheTime, cursor, lock, calls, track,
                 cacheReadAt, cacheStale, lastLen, lastRead, selLog>>
  /\ UNCHANGED lvars

\* get_next_endpoint called from the loop (lines 127-132, with 66-74): no
\* endpoint means `continue`; otherwise the POST is sent and the caller suspends.
CtSelect(p) ==
  /\ running = p
  /\ call[p].pc = "ct_gne"
  /\ LET endpoints == GetEndpoints(call[p].configs) IN
     IF endpoints = <<>>
     THEN /\ Step(p, LoopHead([Used(call[p]) EXCEPT !.attempt = @ + 1]))
          /\ UNCHANGED <<cursor, lock, lastLen, lastRead, selLog>>
     ELSE \E i \in 1..Len(endpoints) :
            /\ Select(p, endpoints, endpoints[i])
            /\ Step(p, [Used(call[p]) EXCEPT !.pc = "post",
                                             !.endpoint = endpoints[i],
                                             !.attempted = Append(@, endpoints[i].url)])
  /\ UNCHANGED <<db, relay, now, cache, cacheTime, calls, track,
                 cacheReadAt, cacheStale>>
  /\ UNCHANGED lvars

\* The POST of line 132 returns or raises: lines 133-138.
PostReturn(p, kind) ==
  /\ running = 0
  /\ call[p].pc = "post"
  /\ LET r == PostCreateTask(Response(kind, call[p].endpoint.url)) IN
     IF r.ok
     THEN Step(p, [call[p] EXCEPT !.pc = "done", !.endpoint = NoEndpoint,
                                  !.result = Returned(r.value)])
     ELSE Step(p, LoopHead([call[p] EXCEPT
                              !.endpoint = NoEndpoint,
                              !.last_error = RecordError(call[p].last_error, r.value),
                              !.attempt = @ + 1]))
  /\ UNCHANGED <<db, relay, now, cache, cacheTime, cursor, lock, calls, track,
                 cacheReadAt, cacheStale, lastLen, lastRead, selLog>>
  /\ UNCHANGED lvars

\* The operation's result is handed to its caller.
Return(p) ==
  /\ running = p
  /\ call[p].pc = "done"
  /\ call' = [call EXCEPT ![p] = Idle]
  /\ running' = 0
  /\ UNCHANGED <<db, relay, now, cache, cacheTime, cursor, lock, calls, track,
                 cacheReadAt, cacheStale, lastLen, lastRead, selLog>>
  /\ UNCHANGED lvars

\* ------------------------------------------------------------- environment
\* Time passes while the event loop is idle or waits on I/O; the synchronous
\* code between two suspension points takes no time.
Tick(d) ==
  /\ running = 0
  /\ now + d <= MaxTime
  /\ now' = now + d
  /\ UNCHANGED <<db, relay, cache, cacheTime, cursor, lock, running, call, calls,
                 track, cacheReadAt, cacheStale, lastLen, lastRead, selLog>>
  /\ UNCHANGED lvars

\* An operator edits the configuration rows.
DbChange(c) ==
  /\ running = 0
  /\ c # db
  /\ db' = c
  /\ UNCHANGED <<relay, now, cache, cacheTime, cursor, lock, running, call, calls,
                 track, cacheReadAt, cacheStale, lastLen, lastRead, selLog>>
  /\ UNCHANGED lvars

\* ---------------------------------------------------------- specifications
InitManager ==
  /\ NoRelayFunction
  /\ now = 0
  /\ cache = <<>>
  /\ cacheTime = 0
  /\ cursor = 0
  /\ lock = 0
  /\ running = 0
  /\ call = [p \in Callers |-> Idle]
  /\ calls = 0
  /\ cacheReadAt = 0
  /\ cacheStale = FALSE
  /\ lastLen = 0
  /\ lastRead = 0
  /\ selLog = <<>>

AllUrls == {<<"a">>, <<"b">>, <<"c">>}

\* The concurrent specifications bound the number of operations started.
Counted == calls < MaxCalls /\ calls' = calls + 1
Uncounted == UNCHANGED calls

\* Concurrent get_next_endpoint, create_task and invalidate_cache calls,
\* configuration changes, any answer from the relays.
Init ==
  /\ InitManager
  /\ db \in DbConfigsConc
  /\ relay = [u \in AllUrls |-> "ok_id"]
  /\ track = "conc"

Next ==
  \/ \E p \in Callers : Counted /\ CallGetNextEndpoint(p)
  \/ \E p \in Callers : Counted /\ CallCreateTask(p)
  \/ InvalidateCache
  \/ \E p \in Callers : DbRead(p)
  \/ \E p \in Callers : FetchReturn(p)
  \/ \E p \in Callers : GneSelect(p)
  \/ \E p \in Callers : CtEnabled(p)
  \/ \E p \in Callers : CtConfig(p)
  \/ \E p \in Callers : CtSelect(p)
  \/ \E p \in Callers : \E k \in ConcKinds : PostReturn(p, k)
  \/ \E p \in Callers : Return(p)
  \/ Tick(cache_ttl + 1)
  \/ \E c \in DbConfigsConc : DbChange(c)

Spec == Init /\ [][Next]_vars

\* One caller, a fixed configuration, each relay answering in a fixed way.
InitSeq ==
  /\ InitManager
  /\ db \in DbConfigs
  /\ relay \in [AllUrls -> SeqKinds]
  /\ track = "seq"

NextSeq ==
  \/ \E p \in SeqCallers : Uncounted /\ CallGetNextEndpoint(p)
  \/ \E p \in SeqCallers : Uncounted /\ CallIsEnabled(p)
  \/ \E p \in SeqCallers : Uncounted /\ CallCreateTask(p)
  \/ InvalidateCache
  \/ \E p \in SeqCallers : DbRead(p)
  \/ \E p \in SeqCallers : FetchReturn(p)
  \/ \E p \in SeqCallers : GneSelect(p)
  \/ \E p \in SeqCallers : IsEnabledReturn(p)
  \/ \E p \in SeqCallers : CtEnabled(p)
  \/ \E p \in SeqCallers : CtConfig(p)
  \/ \E p \in SeqCallers : CtSelect(p)
  \/ \E p \in SeqCallers : PostReturn(p, relay[call[p].endpoint.url])
  \/ \E p \in SeqCallers : Return(p)
  \/ \E d \in {cache_ttl, cache_ttl + 1} : Tick(d)

SpecSeq == InitSeq /\ [][NextSeq]_vars

\* Concurrent readers of the configuration, with the history of the cache.
InitCache ==
  /\ InitManager
  /\ db \in DbConfigsConc
  /\ relay = [u \in AllUrls |-> "ok_id"]
  /\ track = "cache"

NextCache ==
  \/ \E p \in Callers : Counted /\ CallGetNextEndpoint(p)
  \/ \E p \in Callers : Counted /\ CallIsEnabled(p)
  \/ InvalidateCache
  \/ \E p \in Callers : DbRead(p)
  \/ \E p \in Callers : FetchReturn(p)
  \/ \E p \in Callers : GneSelect(p)
  \/ \E p \in Callers : IsEnabledReturn(p)
  \/ \E p \in Callers : Return(p)
  \/ \E d \in {cache_ttl, cache_ttl + 1} : Tick(d)
  \/ \E c \in DbConfigsConc : DbChange(c)

SpecCache == InitCache /\ [][NextCache]_vars

\* Concurrent callers over a configuration that does not change.
NextFixed ==
  \/ \E p \in Callers : Counted /\ CallGetNextEndpoint(p)
  \/ \E p \in Callers : Counted /\ CallCreateTask(p)
  \/ InvalidateCache
  \/ \E p \in Callers : DbRead(p)
  \/ \E p \in Callers : FetchReturn(p)
  \/ \E p \in Callers : GneSelect(p)
  \/ \E p \in Callers : CtEnabled(p)
  \/ \E p \in Callers : CtConfig(p)
  \/ \E p \in Callers : CtSelect(p)
  \/ \E p \in Callers : \E k \in ConcKinds : PostReturn(p, k)
  \/ \E p \in Callers : Return(p)
  \/ Tick(cache_ttl + 1)

SpecFixed == Init /\ [][NextFixed]_vars

\* ------------------------------------------------------------------ claims
Pool == GetEndpoints(db)
PoolSize == Len(Pool)
PoolUrl(j) == Pool[j].url

Distinct(seq) == \A i, j \in 1..Len(seq) : i # j => seq[i] # seq[j]

\* Whether the relay at `u` answers the POST with a task id (sequential
\* specification), and what create_task then gets from it.
Outcome(u) == PostCreateTask(Response(relay[u], u))
Succeeds(u) == Outcome(u).ok

\* 1-based position of url `u` in the pool (0 when absent).
IndexOf(u) ==
  IF \E j \in 1..PoolSize : PoolUrl(j) = u
  THEN CHOOSE j \in 1..PoolSize : PoolUrl(j) = u
  ELSE 0

CreateTaskDone(p) == call[p].op = "create_task" /\ call[p].pc = "done"

\* C1: with a fixed pool of N >= 1 endpoints, the sequence of endpoints
\* returned by successive get_next_endpoint calls is periodic with period N,
\* and every window of N consecutive selections holds each endpoint of the
\* pool exactly once.
C1_RoundRobin ==
  PoolSize >= 1 =>
    /\ \A i \in 1..Len(selLog) :
         i + PoolSize <= Len(selLog) => selLog[i + PoolSize] = selLog[i]
    /\ \A i \in 1..Len(selLog) :
         i + PoolSize - 1 <= Len(selLog) =>
           \A j \in 1..PoolSize :
             Cardinality({k \in i..(i + PoolSize - 1) : selLog[k] = PoolUrl(j)}) = 1

C1_Witness == PoolSize = 3 /\ Len(selLog) = 2 * PoolSize

\* C2: when exactly one endpoint of the pool succeeds and the others fail,
\* create_task returns that endpoint's task id whatever the cursor was when it
\* started, having attempted at most N endpoints, all distinct.
ExactlyOneSucceeds ==
  Cardinality({j \in 1..PoolSize : Succeeds(PoolUrl(j))}) = 1

C2_OneSuccessFound ==
  \A p \in SeqCallers :
    (CreateTaskDone(p) /\ ExactlyOneSucceeds) =>
      /\ call[p].result.kind = "return"
      /\ \E j \in 1..PoolSize :
           /\ Succeeds(PoolUrl(j))
           /\ call[p].result.value = Outcome(PoolUrl(j)).value
           /\ call[p].result.value = <<"task-">> \o PoolUrl(j)
      /\ Len(call[p].attempted) <= PoolSize
      /\ Distinct(call[p].attempted)

\* The succeeding endpoint is the last of the rotation, which started at b.
C2_Witness ==
  /\ PoolSize = 3
  /\ ExactlyOneSucceeds
  /\ CreateTaskDone(1)
  /\ call[1].attempted = <<PoolUrl(2), PoolUrl(3), PoolUrl(1)>>
  /\ call[1].result = Returned(<<"task-">> \o PoolUrl(1))

\* C3: when every endpoint of the pool fails, create_task makes exactly N
\* attempts and raises one 502 error whose detail carries the failure of the
\* last endpoint attempted.
NoneSucceeds == \A j \in 1..PoolSize : ~Succeeds(PoolUrl(j))

C3_AllFail ==
  \A p \in SeqCallers :
    (CreateTaskDone(p) /\ PoolSize >= 1 /\ NoneSucceeds) =>
      LET att == call[p].attempted IN
      /\ Len(att) = PoolSize
      /\ Distinct(att)
      /\ call[p].result =
           HTTPException(502, AllFailedMsg(Outcome(att[Len(att)]).value))

\* All three fail, the first and the last with different errors.
C3_Witness ==
  /\ PoolSize = 3
  /\ NoneSucceeds
  /\ CreateTaskDone(1)
  /\ call[1].result.status_code = 502
  /\ Outcome(call[1].attempted[1]).value # Outcome(call[1].attempted[3]).value

\* C7: create_task fails fast with a 400 "not enabled" error, attempting no
\* endpoint and leaving the cursor alone, when no row is enabled; when a row
\* is enabled but the eligible pool is empty it fails fast with a 400 error
\* that is neither the "not enabled" error nor the aggregate 502 error.
SomeRowEnabled == \E i \in 1..Len(db) : db[i].lambda_enabled

C7_FailFast ==
  \A p \in SeqCallers :
    CreateTaskDone(p) =>
      /\ ~SomeRowEnabled =>
           /\ call[p].result = HTTPException(400, NotEnabledMsg)
           /\ call[p].attempted = <<>>
           /\ cursor = 0 /\ lastLen = 0 /\ selLog = <<>>
      /\ (SomeRowEnabled /\ PoolSize = 0) =>
           /\ call[p].result.kind = "raise"
           /\ call[p].result.status_code = 400
           /\ call[p].result.value \in {NoUrlsMsg, NoKeyMsg}
           /\ call[p].result.value # NotEnabledMsg
           /\ \A e \in {NoneStr, NotEnabledMsg, NoUrlsMsg, NoKeyMsg} :
                call[p].result # HTTPException(502, AllFailedMsg(e))
           /\ call[p].attempted = <<>>
           /\ cursor = 0 /\ lastLen = 0 /\ selLog = <<>>

C7_Witness ==
  /\ SomeRowEnabled
  /\ CreateTaskDone(1)
  /\ call[1].result = HTTPException(400, NoKeyMsg)

\* C10: create_task returns on the first successful attempt: the endpoints
\* attempted follow the rotation, all but the last fail, the last succeeds
\* and its task id is returned, and the cursor has advanced once per attempt
\* (it stands just past the succeeding endpoint).
C10_FirstSuccess ==
  \A p \in SeqCallers :
    (CreateTaskDone(p) /\ call[p].result.kind = "return") =>
      LET att == call[p].attempted
          k == Len(att)
          first == IndexOf(att[1]) - 1
      IN
      /\ k >= 1 /\ k <= PoolSize
      /\ IndexOf(att[1]) >= 1
      /\ \A i \in 1..k : att[i] = PoolUrl(((first + i - 1) % PoolSize) + 1)
      /\ \A i \in 1..(k - 1) : ~Succeeds(att[i])
      /\ Succeeds(att[k])
      /\ call[p].result = Returned(Outcome(att[k]).value)
      /\ cursor = (first + k) % PoolSize

\* Pool [A, B, C], cursor at A, A and B fail, C succeeds: C's result after
\* exactly 3 attempts.
C10_Witness ==
  /\ PoolSize = 3
  /\ CreateTaskDone(1)
  /\ call[1].attempted = <<PoolUrl(1), PoolUrl(2), PoolUrl(3)>>
  /\ ~Succeeds(PoolUrl(1)) /\ ~Succeeds(PoolUrl(2)) /\ Succeeds(PoolUrl(3))
  /\ call[1].result = Returned(<<"task-">> \o PoolUrl(3))
  /\ cursor = 0

Max(a, b) == IF a >= b THEN a ELSE b

\* A step in which caller p completes a selection of get_next_endpoint.
SelectionStep(p) ==
  \/ call[p].pc = "ct_gne" /\ call'[p].pc = "post"
  \/ /\ call[p].pc = "gne" /\ call'[p].pc = "done"
     /\ call'[p].result # Returned(NoEndpoint)

Selected(c) == IF c.pc = "post" THEN c.endpoint ELSE c.result.value

\* C4: in every interleaving of concurrent callers, a selection reads the
\* cursor as the previous selection left it, returns pool[cursor mod |pool|]
\* and advances the cursor in the same step, with the lock free before and
\* after: no two callers read the same cursor value before it is advanced.
C4_AtomicSelection ==
  [][\A p \in Callers :
       SelectionStep(p) =>
         LET pool == GetEndpoints(call[p].configs) IN
         /\ Selected(call'[p]) = pool[(cursor % Len(pool)) + 1]
         /\ lastRead' = cursor
         /\ cursor' = (cursor + 1) % Len(pool)
         /\ lock = 0 /\ lock' = 0
         /\ \A q \in Callers \ {p} : call'[q] = call[q]]_vars

\* Two create_task invocations interleaved at their POSTs, two endpoints.
C4_Witness ==
  /\ call[1].pc = "post" /\ call[2].pc = "post"
  /\ call[1].endpoint # call[2].endpoint

\* C5: the endpoints one create_task invocation attempts are pairwise
\* distinct, also when other invocations interleave with it.
C5_DistinctAttempts == \A p \in Callers : Distinct(call[p].attempted)

\* The pool the next selection would use.
CurrentPool == GetEndpoints(IF NeedsFetch(now) THEN db ELSE cache[1])

\* C6: in every reachable state 0 <= cursor < max(1, |pool|) for the current
\* eligible pool.
C6_CursorInPool == 0 <= cursor /\ cursor < Max(1, Len(CurrentPool))

\* C6 as amended: in every reachable state 0 <= cursor < max(1, n), n being
\* the size of the pool of the most recent selection (0 before any).
C6_CursorInLastPool == 0 <= cursor /\ cursor < Max(1, lastLen)

\* The pool has shrunk under the cursor.
C6_Witness == lastLen = 2 /\ cursor = 1 /\ Len(CurrentPool) = 1 /\ cache # <<>>

\* C8: after invalidate_cache, no read of the configuration is served from
\* the cache a list that was read from the source before the invalidation.
C8_RefetchAfterInvalidate == \A p \in Callers : ~(call[p].hit /\ call[p].stale)

Served(c) == c.pc \in {"gne", "is_enabled", "ct_enabled", "ct_config", "ct_gne"}

\* C9: an access (at time T, the time _get_config is entered) is served from
\* the cache, without a fetch, exactly when a list is cached and
\* T - _cache_time <= 60; otherwise it fetches; and every list served was
\* read from the source no earlier than T - 60.
C9_CacheTtl ==
  [][\A p \in Callers :
       LET c == call[p]
           d == call'[p]
       IN
       /\ (d.hit /\ d # c) =>
            /\ cache # <<>> /\ now - cacheTime <= cache_ttl
            /\ d.configs = cache[1]
            /\ cache' = cache /\ cacheTime' = cacheTime
       /\ (d.pc = "fetch" /\ c.pc # "fetch") =>
            (cache = <<>> \/ now - cacheTime > cache_ttl)
       /\ Served(d) => d.readAt >= d.servedAt - cache_ttl]_vars

\* A list read at time t is served from the cache at t + 60.
C9_Witness ==
  \E p \in Callers :
    /\ call[p].hit
    /\ call[p].servedAt = call[p].readAt + cache_ttl
    /\ call[p].servedAt = cacheTime + cache_ttl

\* =========================================================================
\* The relay function (src/lambda/sora_create_task_lambda.py): lambda_handler
\* and the functions it calls.  It is a process of its own, one invocation at
\* a time; post_json blocks until the remote side has answered.
\*
\* Text is a sequence of one-character strings and bytes are a sequence of
\* numbers 0..255, so that encoding, base64, hex decoding, JSON writing and
\* JSON reading are computed.
\* =========================================================================

\* ------------------------------------------------------------------ bounds
\* range(POW_MAX_ITERATION) is cut at MaxIter iterations.
MaxIter == 3

\* --------------------------------------------------------------- constants
POW_MAX_ITERATION == 500000

\* ------------------------------------------------------------------- bytes
\* The printable ASCII characters: codes 32..95 and 97..126.
AsciiLow ==
  <<" ", "!", "\"", "#", "$", "%", "&", "'", "(", ")", "*", "+", ",",
    "-", ".", "/", "0", "1", "2", "3", "4", "5", "6", "7", "8", "9",
    ":", ";", "<", "=", ">", "?", "@", "A", "B", "C", "D", "E", "F",
    "G", "H", "I", "J", "K", "L", "M", "N", "O", "P", "Q", "R", "S",
    "T", "U", "V", "W", "X", "Y", "Z", "[", "\\", "]", "^", "_">>

AsciiHigh ==
  <<"a", "b", "c", "d", "e", "f", "g", "h", "i", "j", "k", "l", "m",
    "n", "o", "p", "q", "r", "s", "t", "u", "v", "w", "x", "y", "z",
    "{", "|", "}", "~">>

Chars == {AsciiLow[k] : k \in 1..Len(AsciiLow)} \cup {AsciiHigh[k] : k \in 1..Len(AsciiHigh)}

\* ord(c), tabulated once.
OrdTable ==
  [c \in Chars |->
     IF \E k \in 1..Len(AsciiLow) : AsciiLow[k] = c
     THEN 31 + (CHOOSE k \in 1..Len(AsciiLow) : AsciiLow[k] = c)
     ELSE 96 + (CHOOSE k \in 1..Len(AsciiHigh) : AsciiHigh[k] = c)]
Ord(c) == OrdTable[c]

\* str.encode() on ASCII text.
Encode(s) == [k \in 1..Len(s) |-> Ord(s[k])]

B64Alphabet ==
  <<"A", "B", "C", "D", "E", "F", "G", "H", "I", "J", "K", "L", "M",
    "N", "O", "P", "Q", "R", "S", "T", "U", "V", "W", "X", "Y", "Z",
    "a", "b", "c", "d", "e", "f", "g", "h", "i", "j", "k", "l", "m",
    "n", "o", "p", "q", "r", "s", "t", "u", "v", "w", "x", "y", "z",
    "0", "1", "2", "3", "4", "5", "6", "7", "8", "9", "+", "/">>

B64Char(n) == B64Alphabet[n + 1]

\* base64.b64encode(b).decode()
RECURSIVE B64Encode(_)
B64Encode(b) ==
  IF Len(b) = 0 THEN <<>>
  ELSE IF Len(b) = 1
  THEN <<B64Char(b[1] \div 4), B64Char((b[1] % 4) * 16), "=", "=">>
  ELSE IF Len(b) = 2
  THEN <<B64Char(b[1] \div 4),
         B64Char((b[1] % 4) * 16 + b[2] \div 16),
         B64Char((b[2] % 16) * 4), "=">>
  ELSE <<B64Char(b[1] \div 4),
         B64Char((b[1] % 4) * 16 + b[2] \div 16),
         B64Char((b[2] % 16) * 4 + b[3] \div 64),
         B64Char(b[3] % 64)>> \o B64Encode(SubSeq(b, 4, Len(b)))

\* str(i) of a natural number.
Digits == <<"0", "1", "2", "3", "4", "5", "6", "7", "8", "9">>
RECURSIVE Str(_)
Str(i) == IF i < 10 THEN <<Digits[i + 1]>> ELSE Str(i \div 10) \o <<Digits[(i % 10) + 1]>>

\* bytes.fromhex(s): pairs of hex digits, ASCII whitespace allowed between
\* pairs; ValueError for anything else, an odd number of digits included.
HexDigits ==
  <<"0", "1", "2", "3", "4", "5", "6", "7", "8", "9", "a", "b", "c",
    "d", "e", "f", "A", "B", "C", "D", "E", "F">>

IsHex(c) == \E k \in 1..Len(HexDigits) : HexDigits[k] = c
HexVal(c) ==
  LET k == CHOOSE j \in 1..Len(HexDigits) : HexDigits[j] = c
  IN IF k <= 16 THEN k - 1 ELSE k - 7

RECURSIVE FromHex(_)
FromHex(s) ==
  IF Len(s) = 0 THEN [ok |-> TRUE, bytes |-> <<>>]
  ELSE IF s[1] \in Whitespace THEN FromHex(Tail(s))
  ELSE IF Len(s) < 2 \/ ~IsHex(s[1]) \/ ~IsHex(s[2]) THEN [ok |-> FALSE, bytes |-> <<>>]
  ELSE LET rest == FromHex(SubSeq(s, 3, Len(s))) IN
       [ok |-> rest.ok,
        bytes |-> <<16 * HexVal(s[1]) + HexVal(s[2])>> \o rest.bytes]

\* a <= b on bytes objects: lexicographic, a proper prefix is smaller.
RECURSIVE BytesLe(_, _)
BytesLe(a, b) ==
  IF Len(a) = 0 THEN TRUE
  ELSE IF Len(b) = 0 THEN FALSE
  ELSE IF a[1] # b[1] THEN a[1] < b[1]
  ELSE BytesLe(Tail(a), Tail(b))

\* b[:n]
Prefix(b, n) == SubSeq(b, 1, IF n < Len(b) THEN n ELSE Len(b))

\* -------------------------------------------------------------------- JSON
\* A JSON value, as json.loads returns it and json.dumps takes it: None,
\* bool, int, str, list, and dict as the sequence of its <<key, value>> members.
JNull == [t |-> "null", s |-> <<>>, n |-> 0, b |-> FALSE, items |-> <<>>, members |-> <<>>]
JBool(b) == [JNull EXCEPT !.t = "bool", !.b = b]
JNum(n) == [JNull EXCEPT !.t = "num", !.n = n]
JStr(s) == [JNull EXCEPT !.t = "str", !.s = s]
JList(items) == [JNull EXCEPT !.t = "list", !.items = items]
JObj(members) == [JNull EXCEPT !.t = "obj", !.members = members]
\* A number json.dumps writes as the given literal (a float, a large int).
JLit(s) == [JNull EXCEPT !.t = "lit", !.s = s]

\* bool(x) of a JSON value.
JTruthy(x) ==
  CASE x.t = "null" -> FALSE
    [] x.t = "bool" -> x.b
    [] x.t = "num" -> x.n # 0
    [] x.t = "str" -> Len(x.s) > 0
    [] x.t = "list" -> Len(x.items) > 0
    [] x.t = "obj" -> Len(x.members) > 0
    [] x.t = "lit" -> TRUE

HasKey(d, key) == \E k \in 1..Len(d.members) : d.members[k][1] = key

\* d.get(key, default) of a dict.
GetNoDefault(d, key, default) ==
  IF HasKey(d, key)
  THEN d.members[CHOOSE k \in 1..Len(d.members) : d.members[k][1] = key][2]
  ELSE JNull

Get(d, key, default) ==
  IF HasKey(d, key)
  THEN d.members[CHOOSE k \in 1..Len(d.members) : d.members[k][1] = key][2]
  ELSE default

\* The string escapes json.dumps writes for the characters of the model:
\* a backslash before each quote and each backslash.
Escaped(s) ==
  LET slots == [k \in 1..(2 * Len(s)) |->
                  IF k % 2 = 0 THEN s[k \div 2]
                  ELSE IF s[(k + 1) \div 2] \in {"\"", "\\"} THEN "\\" ELSE ""]
      Written(c) == c # ""
  IN SelectSeq(slots, Written)

\* json.dumps(x, separators=(isep, ksep))
RECURSIVE Dumps(_, _, _), DumpItems(_, _, _), DumpMembers(_, _, _)
Dumps(x, isep, ksep) ==
  CASE x.t = "null" -> <<"n", "u", "l", "l">>
    [] x.t = "bool" -> IF x.b THEN <<"t", "r", "u", "e">>
                                 ELSE <<"f", "a", "l", "s", "e">>
    [] x.t = "num" -> Str(x.n)
    [] x.t = "lit" -> x.s
    [] x.t = "str" -> <<"\"">> \o Escaped(x.s) \o <<"\"">>
    [] x.t = "list" -> <<"[">> \o DumpItems(x.items, isep, ksep) \o <<"]">>
    [] x.t = "obj" -> <<"{">> \o DumpMembers(x.members, isep, ksep) \o <<"}">>

DumpItems(items, isep, ksep) ==
  IF Len(items) = 0 THEN <<>>
  ELSE IF Len(items) = 1 THEN Dumps(items[1], isep, ksep)
  ELSE Dumps(items[1], isep, ksep) \o isep \o DumpItems(Tail(items), isep, ksep)

DumpMembers(items, isep, ksep) ==
  IF Len(items) = 0 THEN <<>>
  ELSE LET m == <<"\"">> \o Escaped(items[1][1]) \o <<"\"">> \o ksep
                \o Dumps(items[1][2], isep, ksep)
       IN IF Len(items) = 1 THEN m
          ELSE m \o isep \o DumpMembers(Tail(items), isep, ksep)

\* json.dumps(x) and json.dumps(x, separators=(",", ":"))
DumpsDefault(x) == Dumps(x, <<",", " ">>, <<":", " ">>)
DumpsCompact(x) == Dumps(x, <<",">>, <<":">>)

\* json.loads(s): a reader of the JSON the model's documents are written in
\* (no floats, no negative numbers, the escapes \" \\ \/ only).
NoParse == [ok |-> FALSE, val |-> JNull, next |-> 0]
Parsed(x, i) == [ok |-> TRUE, val |-> x, next |-> i]

RECURSIVE SkipWs(_, _)
SkipWs(s, i) == IF i <= Len(s) /\ s[i] \in Whitespace THEN SkipWs(s, i + 1) ELSE i

StartsWith(s, i, w) == i + Len(w) - 1 <= Len(s) /\ SubSeq(s, i, i + Len(w) - 1) = w

\* The number of backslashes that end right before position j, from i on.
Backslashes(s, i, j) ==
  CHOOSE n \in 0..(j - i) :
    /\ \A k \in 1..n : s[j - k] = "\\"
    /\ n = j - i \/ s[j - n - 1] # "\\"

\* A string literal whose opening quote is right before position i: it ends
\* at the first quote that no backslash escapes.
ScanString(s, i) ==
  LET Closing(j) == s[j] = "\"" /\ Backslashes(s, i, j) % 2 = 0
      Escaping(k) == s[k] = "\\" /\ Backslashes(s, i, k) % 2 = 0
  IN IF ~\E j \in i..Len(s) : Closing(j) THEN NoParse
     ELSE LET j == CHOOSE c \in i..Len(s) : Closing(c) /\ \A d \in i..(c - 1) : ~Closing(d)
              Kept(pair) == ~Escaping(pair[1])
              kept == SelectSeq([k \in 1..(j - i) |-> <<i + k - 1, s[i + k - 1]>>], Kept)
          IN IF \E k \in i..(j - 1) : Escaping(k) /\ s[k + 1] \notin {"\"", "\\", "/"}
             THEN NoParse
             ELSE Parsed(JStr([k \in 1..Len(kept) |-> kept[k][2]]), j + 1)

IsDigit(c) == \E k \in 1..Len(Digits) : Digits[k] = c
DigitVal(c) == (CHOOSE k \in 1..Len(Digits) : Digits[k] = c) - 1

RECURSIVE ScanNumber(_, _, _)
ScanNumber(s, i, acc) ==
  IF i <= Len(s) /\ IsDigit(s[i])
  THEN ScanNumber(s, i + 1, 10 * acc + DigitVal(s[i]))
  ELSE Parsed(JNum(acc), i)

RECURSIVE ParseValue(_, _), ParseItems(_, _, _), ParseMembers(_, _, _)
ParseValue(s, i) ==
  IF i > Len(s) THEN NoParse
  ELSE IF s[i] = "\"" THEN ScanString(s, i + 1)
  ELSE IF s[i] = "0" THEN Parsed(JNum(0), i + 1)
  ELSE IF IsDigit(s[i]) THEN ScanNumber(s, i, 0)
  ELSE IF StartsWith(s, i, <<"n", "u", "l", "l">>) THEN Parsed(JNull, i + 4)
  ELSE IF StartsWith(s, i, <<"t", "r", "u", "e">>) THEN Parsed(JBool(TRUE), i + 4)
  ELSE IF StartsWith(s, i, <<"f", "a", "l", "s", "e">>) THEN Parsed(JBool(FALSE), i + 5)
  ELSE IF s[i] = "["
  THEN LET j == SkipWs(s, i + 1) IN
       IF j <= Len(s) /\ s[j] = "]" THEN Parsed(JList(<<>>), j + 1)
       ELSE ParseItems(s, j, <<>>)
  ELSE IF s[i] = "{"
  THEN LET j == SkipWs(s, i + 1) IN
       IF j <= Len(s) /\ s[j] = "}" THEN Parsed(JObj(<<>>), j + 1)
       ELSE ParseMembers(s, j, <<>>)
  ELSE NoParse

ParseItems(s, i, acc) ==
  LET x == ParseValue(s, i) IN
  IF ~x.ok THEN NoParse
  ELSE LET j == SkipWs(s, x.next) IN
       IF j > Len(s) THEN NoParse
       ELSE IF s[j] = "]" THEN Parsed(JList(Append(acc, x.val)), j + 1)
       ELSE IF s[j] = "," THEN ParseItems(s, SkipWs(s, j + 1), Append(acc, x.val))
       ELSE NoParse

\* A key that occurs again replaces the earlier value.
PutItem(items, key, x) ==
  IF \E k \in 1..Len(items) : items[k][1] = key
  THEN [k \in 1..Len(items) |-> IF items[k][1] = key THEN <<key, x>> ELSE items[k]]
  ELSE Append(items, <<key, x>>)

ParseMembers(s, i, acc) ==
  IF i > Len(s) \/ s[i] # "\"" THEN NoParse
  ELSE LET key == ScanString(s, i + 1) IN
       IF ~key.ok THEN NoParse
       ELSE LET c == SkipWs(s, key.next) IN
            IF c > Len(s) \/ s[c] # ":" THEN NoParse
            ELSE LET x == ParseValue(s, SkipWs(s, c + 1)) IN
                 IF ~x.ok THEN NoParse
                 ELSE LET j == SkipWs(s, x.next)
                          items == PutItem(acc, key.val.s, x.val)
                      IN IF j > Len(s) THEN NoParse
                         ELSE IF s[j] = "}" THEN Parsed(JObj(items), j + 1)
                         ELSE IF s[j] = ","
                         THEN ParseMembers(s, SkipWs(s, j + 1), items)
                         ELSE NoParse

\* json.loads(s); ok is FALSE where it raises JSONDecodeError.
Loads(s) ==
  LET x == ParseValue(s, SkipWs(s, 1)) IN
  IF x.ok /\ SkipWs(s, x.next) = Len(s) + 1 THEN x ELSE NoParse

\* ------------------------------------------------------------- fingerprint
\* The texts of the fingerprint are shortened; the numbers that random,
\* time and uuid supply are the fields of a draw.
SORA_APP_USER_AGENT == <<"S", "o", "r", "a", "/", "1">>
Draws ==
  {[screen |-> 3000, cores |-> 8, uuid |-> <<"u", "1">>],
   [screen |-> 4000, cores |-> 16, uuid |-> <<"u", "2">>]}

\* get_pow_config(user_agent), lines 65-87
get_pow_config(user_agent, r) ==
  <<JNum(r.screen),
    JStr(<<"M", "o", "n">>),
    JLit(<<"4", "2", "9", "4", "7", "0", "5", "1", "5", "2">>),
    JNum(0),
    user_agent,
    JStr(<<"j", "s">>),
    JStr(<<"p", "r", "o", "d">>),
    JStr(<<"e", "n", "-", "U", "S">>),
    JStr(<<"e", "n", ",", "e", "s">>),
    JNum(0),
    JStr(<<"w", "e", "b", "d", "r", "i", "v", "e", "r", "-", "f", "a", "l", "s",
    "e">>),
    JStr(<<"l", "o", "c", "a", "t", "i", "o", "n">>),
    JStr(<<"w", "i", "n", "d", "o", "w">>),
    JLit(<<"1", "2", ".", "5">>),
    JStr(r.uuid),
    JStr(<<>>),
    JNum(r.cores),
    JLit(<<"1", "7", "0", "0", ".", "5">>)>>

\* ------------------------------------------------------------------ solver
DropFirst(s) == SubSeq(s, 2, Len(s))
DropLast(s) == SubSeq(s, 1, Len(s) - 1)

\* final_json of iteration i, lines 96-103
FinalJson(config, i) ==
  LET static_part1 == DropLast(DumpsCompact(JList(SubSeq(config, 1, 3)))) \o <<",">>
      static_part2 == <<",">> \o DropFirst(DropLast(DumpsCompact(JList(SubSeq(config, 5, 9)))))
                        \o <<",">>
      static_part3 == <<",">> \o DropFirst(DumpsCompact(JList(SubSeq(config, 11, Len(config)))))
  IN static_part1 \o Str(i) \o static_part2 \o Str(i \div 2) \o static_part3

\* b64_encoded of iteration i, line 104
B64Json(config, i) == B64Encode(Encode(FinalJson(config, i)))

\* The number of iterations of the loop of line 100.
Iterations == IF POW_MAX_ITERATION < MaxIter THEN POW_MAX_ITERATION ELSE MaxIter

\* The fingerprints of the model, and b64_encoded tabulated once for them.
UserAgents == {JStr(SORA_APP_USER_AGENT), JStr(<<"u", "a">>)}
Fingerprints == {get_pow_config(ua, r) : ua \in UserAgents, r \in Draws}
Payloads == [config \in Fingerprints, i \in 0..Iterations |-> B64Json(config, i)]
Payload(config, i) == Payloads[config, i]

\* The fallback of line 110.
ErrorMarker ==
  <<"w", "Q", "8", "L", "k", "5", "F", "b", "G", "p", "A", "2", "N", "c",
    "R", "9", "d", "S", "h", "T", "6", "g", "Y", "j", "U", "7", "V", "x",
    "Z", "4", "D">>
ErrorTokenBare(seed) == B64Encode(Encode(<<"\"">> \o seed \o <<"\"">>))

ErrorToken(seed) == ErrorMarker \o B64Encode(Encode(<<"\"">> \o seed \o <<"\"">>))

Raised(e) == [raised |-> e, payload |-> <<>>, satisfied |-> FALSE, evals |-> 0]
Solution(payload, satisfied, evals) ==
  [raised |-> "", payload |-> payload, satisfied |-> satisfied, evals |-> evals]

\* The test of line 107.
MeetsFirstByte(hash_value, diff_len, target_diff) ==
  diff_len = 0 \/ Len(target_diff) = 0 \/ hash_value[1] <= target_diff[1]

MeetsStrict(hash_value, diff_len, target_diff) ==
  Prefix(hash_value, diff_len) # target_diff
    /\ BytesLe(Prefix(hash_value, diff_len), target_diff)

Meets(hash_value, diff_len, target_diff) ==
  BytesLe(Prefix(hash_value, diff_len), target_diff)

\* The loop of lines 100-111 from iteration i on.  sha3 gives the digest of
\* each input the loop hashes; evals counts the digests computed.
LoopBoundOver(i) == i > Iterations

LoopBound(i) == i >= Iterations

RECURSIVE Search(_, _, _, _, _, _)
Search(i, seed, diff_len, target_diff, config, sha3) ==
  IF LoopBound(i) THEN Solution(ErrorToken(seed), FALSE, i)
  ELSE LET b64_encoded == Payload(config, i)
           hash_value == sha3[seed \o b64_encoded]
       IN IF Meets(hash_value, diff_len, target_diff)
          THEN Solution(b64_encoded, TRUE, i + 1)
          ELSE Search(i + 1, seed, diff_len, target_diff, config, sha3)

\* solve_pow(seed, difficulty, config), lines 90-111; seed and difficulty are
\* Python values, which the caller may have read from a JSON document.
HasLen(x) == x.t \in {"str", "list", "obj"}
PyLen(x) ==
  CASE x.t = "str" -> Len(x.s)
    [] x.t = "list" -> Len(x.items)
    [] x.t = "obj" -> Len(x.members)

solve_pow(seed, difficulty, config, sha3) ==
  IF ~HasLen(difficulty) THEN Raised("TypeError")
  ELSE IF seed.t # "str" THEN Raised("AttributeError")
  ELSE IF difficulty.t # "str" THEN Raised("TypeError")
  ELSE LET diff_len == PyLen(difficulty) \div 2
           target_diff == FromHex(difficulty.s)
       IN IF ~target_diff.ok THEN Raised("ValueError")
          ELSE Search(0, seed.s, diff_len, target_diff.bytes, config, sha3)

\* The inputs the loop may hash, and the digests sha3_512 may give them
\* (digests are shortened to three bytes).
HashInputs(seed, config) == {seed \o Payload(config, i) : i \in 0..Iterations}
Digests == {<<0, 0, 0>>, <<0, 0, 1>>, <<15, 255, 255>>, <<16, 0, 0>>}

\* ------------------------------------------------- solver: specification
\* solve_pow applied once to a seed, a difficulty, a fingerprint and the
\* digests of the inputs it may hash.
TextSeeds == {<<"0", ".", "1">>, <<"0", ".", "5">>}
PowSeeds == {JStr(s) : s \in TextSeeds} \cup {JNum(5)}
HexDifficulties ==
  {<<>>,
   <<"0", "0">>,
   <<"0", "0", "0", "0">>,
   <<"0", "F", "0", "0">>,
   <<"0", "f", "f", "f", "f", "f">>,
   <<"0", "0", "0", "0", "0", "0", "0", "1">>,
   <<"0">>,
   <<"0", "f", "f">>,
   <<"z", "z">>,
   <<"0", "0", " ", "0", "1">>}
Difficulties == {JStr(d) : d \in HexDifficulties} \cup {JNum(5), JList(<<JNum(0), JNum(0)>>)}

\* The relay specifications leave the manager out.
NoManager ==
  /\ now = 0 /\ cache = <<>> /\ cacheTime = 0 /\ cursor = 0 /\ lock = 0
  /\ running = 0 /\ call = [p \in Callers |-> Idle] /\ calls = 0
  /\ cacheReadAt = 0 /\ cacheStale = FALSE /\ lastLen = 0 /\ lastRead = 0
  /\ selLog = <<>> /\ db = <<>> /\ relay = <<>> /\ track = "relay"
NoCall == Raised("")

InitPow ==
  /\ \E seed \in PowSeeds, difficulty \in Difficulties, config \in Fingerprints :
       \E sha3 \in [HashInputs(seed.s, config) -> Digests] :
         solver = [pc |-> "call", seed |-> seed, difficulty |-> difficulty,
                   config |-> config, sha3 |-> sha3, result |-> NoCall]
  /\ environ = Absent /\ event = Absent /\ handler = Absent
  /\ net = Absent /\ assembler = Absent
  /\ NoManager

SolvePow ==
  /\ solver.pc = "call"
  /\ solver' = [solver EXCEPT
                  !.pc = "done",
                  !.result = solve_pow(solver.seed, solver.difficulty,
                                       solver.config, solver.sha3)]
  /\ UNCHANGED <<mvars, environ, event, handler, net, assembler>>

NextPow == SolvePow

SpecPow == InitPow /\ [][NextPow]_vars

\* ------------------------------------------------------ claims: the solver
RECURSIVE BigEndian(_)
BigEndian(b) == IF Len(b) = 0 THEN 0 ELSE 256 * BigEndian(DropLast(b)) + b[Len(b)]

SolverDone == solver.pc = "done"
Returns == SolverDone /\ solver.result.raised = ""
SeedIsText == solver.seed.t = "str"
Target == FromHex(solver.difficulty.s)
\* The difficulty is a str of hex digits only.
PlainHex == solver.difficulty.t = "str" /\ \A k \in 1..Len(solver.difficulty.s) : IsHex(solver.difficulty.s[k])
DigestOf(payload) == solver.sha3[solver.seed.s \o payload]
DigestAt(i) == DigestOf(Payload(solver.config, i))

\* C14: whenever solve_pow returns satisfied=true, the hash of seed ++ payload,
\* cut to the L bytes of the decoded difficulty and read as a big-endian
\* unsigned integer, is at most the decoded difficulty.
C14_SatisfiedMeetsTarget ==
  Returns /\ solver.result.satisfied =>
    BigEndian(Prefix(DigestOf(solver.result.payload), Len(Target.bytes)))
      <= BigEndian(Target.bytes)

\* A solution found at the second iteration, strictly below a 3-byte target.
C14_Witness ==
  /\ Returns /\ solver.result.satisfied /\ solver.result.evals = 2
  /\ Len(Target.bytes) = 3
  /\ BigEndian(DigestOf(solver.result.payload)) < BigEndian(Target.bytes)

\* The seeds' fallback payloads, as base64.b64encode gives them for the
\* quoted seed.
FallbackOf(seed) ==
  CASE seed = <<"0", ".", "1">> -> ErrorMarker \o <<"I", "j", "A", "u", "M", "S", "I", "=">>
    [] seed = <<"0", ".", "5">> -> ErrorMarker \o <<"I", "j", "A", "u", "N", "S", "I", "=">>

\* Iteration i passes the test of the loop.
Satisfies(i) ==
  BytesLe(Prefix(DigestAt(i), Len(solver.difficulty.s) \div 2), Target.bytes)

\* C15: solve_pow computes at most POW_MAX_ITERATION hashes (here: the
\* Iterations the loop is cut at); when no iteration of the loop meets the
\* threshold it returns, without raising, satisfied=false and the fixed
\* marker followed by base64 of the quoted seed.
C15_BoundedSearch ==
  /\ SolverDone => solver.result.evals <= Iterations
  /\ Iterations <= POW_MAX_ITERATION
  /\ SolverDone /\ SeedIsText /\ solver.difficulty.t = "str" /\ Target.ok
       /\ (\A i \in 0..(Iterations - 1) : ~Satisfies(i))
     => /\ solver.result.raised = ""
        /\ ~solver.result.satisfied
        /\ solver.result.evals = Iterations
        /\ solver.result.payload = FallbackOf(solver.seed.s)

\* Every iteration hashed, none met a 3-byte threshold.
C15_Witness ==
  /\ Returns /\ ~solver.result.satisfied /\ solver.result.evals = Iterations
  /\ Len(Target.bytes) = 3
  /\ solver.seed.s = <<"0", ".", "5">>

\* The difficulty is L >= 1 bytes, written as 2L hex digits, all of them 0.
AllZeroTarget ==
  /\ SeedIsText /\ PlainHex /\ Target.ok
  /\ Len(Target.bytes) >= 1
  /\ \A k \in 1..Len(Target.bytes) : Target.bytes[k] = 0

\* C16, as stated: for an all-zero target solve_pow returns satisfied=false
\* with the marker-prefixed fallback payload, whatever the seed and the
\* fingerprint.
C16_AllZeroUnsatisfiable ==
  SolverDone /\ AllZeroTarget =>
    /\ solver.result.raised = ""
    /\ ~solver.result.satisfied
    /\ solver.result.payload = FallbackOf(solver.seed.s)

\* The first L bytes of the digest (all of it when it is shorter) are zero.
ZeroPrefix(d, L) == \A k \in 1..Len(d) : k <= L => d[k] = 0
ZeroIterations == {i \in 0..(Iterations - 1) : ZeroPrefix(DigestAt(i), Len(Target.bytes))}

\* C16, amended: for an all-zero target of L bytes solve_pow returns
\* satisfied=true with the payload of the first iteration whose hash starts
\* with L zero bytes, and satisfied=false with the fallback payload exactly
\* when no iteration of the loop has such a hash.
C16_AllZeroNeedsZeroDigest ==
  SolverDone /\ AllZeroTarget =>
    /\ solver.result.raised = ""
    /\ solver.result.satisfied <=> ZeroIterations # {}
    /\ solver.result.satisfied =>
         solver.result.payload =
           Payload(solver.config, CHOOSE i \in ZeroIterations : \A j \in ZeroIterations : i <= j)
    /\ ~solver.result.satisfied => solver.result.payload = FallbackOf(solver.seed.s)

\* A 2-byte all-zero target met at the second iteration.
C16_Witness ==
  /\ SolverDone /\ AllZeroTarget /\ Len(Target.bytes) = 2
  /\ solver.result.satisfied /\ solver.result.evals = 2

\* C17: for a difficulty of an odd number of hex digits solve_pow does not
\* fail; it searches as for the difficulty without its last digit.
C17_OddLengthTruncates ==
  SolverDone /\ SeedIsText /\ PlainHex /\ Len(solver.difficulty.s) % 2 = 1 =>
    /\ solver.result.raised = ""
    /\ solver.result = solve_pow(solver.seed, JStr(DropLast(solver.difficulty.s)),
                                 solver.config, solver.sha3)

\* --------------------------------------------------------------- assembler
\* The dict keys the relay function reads and writes.
k_proofofwork == <<"p", "r", "o", "o", "f", "o", "f", "w", "o", "r", "k">>
k_required == <<"r", "e", "q", "u", "i", "r", "e", "d">>
k_seed == <<"s", "e", "e", "d">>
k_difficulty == <<"d", "i", "f", "f", "i", "c", "u", "l", "t", "y">>
k_turnstile == <<"t", "u", "r", "n", "s", "t", "i", "l", "e">>
k_dx == <<"d", "x">>
k_token == <<"t", "o", "k", "e", "n">>
k_p == <<"p">>
k_t == <<"t">>
k_c == <<"c">>
k_id == <<"i", "d">>
k_flow == <<"f", "l", "o", "w">>

FirstPassMarker == <<"g", "A", "A", "A", "A", "A", "C">>
SecondPassMarker == <<"g", "A", "A", "A", "A", "A", "B">>

\* get_pow_token(user_agent), lines 114-119; seed and r are the random draws.
InitialDifficulty == <<"0", "f", "f", "f", "f", "f">>
get_pow_token(user_agent, seed, r, sha3) ==
  LET solution == solve_pow(JStr(seed), JStr(InitialDifficulty),
                            get_pow_config(user_agent, r), sha3)
  IN [solution EXCEPT !.payload = FirstPassMarker \o solution.payload]

EmptyDict == JObj(<<>>)
EmptyStr == JStr(<<>>)

Failed(e, who, solves, second) ==
  [raised |-> e, by |-> who, token |-> <<>>, solves |-> solves, second |-> second]
Built(token, solves, second) ==
  [raised |-> "", by |-> "", token |-> token, solves |-> solves, second |-> second]

\* The tests of lines 125 and 128 on a proofofwork dict.
NeedsSecondPassRequiredOnly(proofofwork) ==
  JTruthy(Get(proofofwork, k_required, JNull))

NeedsSecondPass(proofofwork) ==
  /\ JTruthy(Get(proofofwork, k_required, JNull))
  /\ JTruthy(Get(proofofwork, k_seed, EmptyStr))
  /\ JTruthy(Get(proofofwork, k_difficulty, EmptyStr))

\* Lines 133-140, with the proof final_pow_token.
Compose(flow, resp, final_pow_token, id, solves, second) ==
  LET turnstile == Get(resp, k_turnstile, EmptyDict) IN
  IF turnstile.t # "obj" THEN Failed("AttributeError", "assembler", solves, second)
  ELSE LET token_payload ==
             JObj(<< <<k_p, final_pow_token>>,
                     <<k_t, Get(turnstile, k_dx, EmptyStr)>>,
                     <<k_c, Get(resp, k_token, EmptyStr)>>,
                     <<k_id, JStr(id)>>,
                     <<k_flow, flow>> >>)
       IN Built(DumpsCompact(token_payload), solves, second)

\* build_openai_sentinel_token(flow, resp, pow_token, user_agent), lines
\* 122-140; r and id are the random draws, sha3 the digests of the second pass.
build_openai_sentinel_token(flow, resp, pow_token, user_agent, r, id, sha3) ==
  IF resp.t # "obj" THEN Failed("AttributeError", "assembler", 0, NoCall)
  ELSE LET proofofwork == Get(resp, k_proofofwork, EmptyDict) IN
  IF proofofwork.t # "obj" THEN Failed("AttributeError", "assembler", 0, NoCall)
  ELSE IF NeedsSecondPass(proofofwork)
  THEN LET seed == Get(proofofwork, k_seed, EmptyStr)
           difficulty == Get(proofofwork, k_difficulty, EmptyStr)
           config == get_pow_config(user_agent, r)
           solution == solve_pow(seed, difficulty, config, sha3)
       IN IF solution.raised # "" THEN Failed(solution.raised, "solver", 1, solution)
          ELSE Compose(flow, resp, JStr(SecondPassMarker \o solution.payload), id, 1, solution)
  ELSE Compose(flow, resp, pow_token, id, 0, NoCall)

\* ---------------------------------------------- assembler: specification
\* The bodies the verification endpoint may answer with, as json.loads reads
\* them: complete, incomplete and malformed challenge responses.
RespEmpty ==
  JObj(<<>>)
RespPlain ==
  JObj(<<<<k_token, JStr(<<"t", "k">>)>>, <<k_turnstile, JObj(<<<<k_dx, JStr(<<"d", "x">>)>>>>)>>, <<k_proofofwork, JObj(<<<<k_required, JBool(FALSE)>>>>)>>>>)
RespChallenge ==
  JObj(<<<<k_token, JStr(<<"t", "k">>)>>, <<k_turnstile, JObj(<<<<k_dx, JStr(<<"d", "x">>)>>>>)>>, <<k_proofofwork, JObj(<<<<k_required, JBool(TRUE)>>, <<k_seed, JStr(<<"0", ".", "1">>)>>, <<k_difficulty, JStr(<<"0", "0", "0", "0">>)>>>>)>>>>)
RespChallengeOnly ==
  JObj(<<<<k_proofofwork, JObj(<<<<k_required, JBool(TRUE)>>, <<k_seed, JStr(<<"0", ".", "5">>)>>, <<k_difficulty, JStr(<<"0", "f", "f", "f", "f", "f">>)>>>>)>>>>)
RespEmptySeed ==
  JObj(<<<<k_proofofwork, JObj(<<<<k_required, JBool(TRUE)>>, <<k_seed, JStr(<<>>)>>, <<k_difficulty, JStr(<<"0", "0">>)>>>>)>>>>)
RespNoDifficulty ==
  JObj(<<<<k_proofofwork, JObj(<<<<k_required, JBool(TRUE)>>, <<k_seed, JStr(<<"0", ".", "1">>)>>>>)>>, <<k_turnstile, JObj(<<>>)>>>>)
RespNotRequired ==
  JObj(<<<<k_proofofwork, JObj(<<<<k_required, JBool(FALSE)>>, <<k_seed, JStr(<<"0", ".", "1">>)>>, <<k_difficulty, JStr(<<"0", "0", "0", "0">>)>>>>)>>, <<k_turnstile, JObj(<<>>)>>>>)
RespOddDifficulty ==
  JObj(<<<<k_proofofwork, JObj(<<<<k_required, JBool(TRUE)>>, <<k_seed, JStr(<<"0", ".", "1">>)>>, <<k_difficulty, JStr(<<"0", "f", "f">>)>>>>)>>>>)
RespNumberSeed ==
  JObj(<<<<k_proofofwork, JObj(<<<<k_required, JBool(TRUE)>>, <<k_seed, JNum(5)>>, <<k_difficulty, JStr(<<"0", "0">>)>>>>)>>>>)
RespNullProof ==
  JObj(<<<<k_proofofwork, JNull>>, <<k_token, JStr(<<"t", "k">>)>>>>)
RespTextProof ==
  JObj(<<<<k_proofofwork, JStr(<<"x">>)>>>>)
RespNullTurnstile ==
  JObj(<<<<k_turnstile, JNull>>, <<k_token, JStr(<<"t", "k">>)>>>>)
RespNullValues ==
  JObj(<<<<k_token, JNull>>, <<k_turnstile, JObj(<<<<k_dx, JNull>>>>)>>>>)
RespNumberToken ==
  JObj(<<<<k_token, JNum(5)>>, <<k_turnstile, JObj(<<<<k_dx, JList(<<JNum(1)>>)>>>>)>>>>)
RespList ==
  JList(<<>>)

ChallengeResponses ==
  {RespEmpty, RespPlain, RespChallenge, RespChallengeOnly, RespEmptySeed,
   RespNoDifficulty, RespNotRequired, RespOddDifficulty, RespNumberSeed, RespNullProof,
   RespTextProof, RespNullTurnstile, RespNullValues, RespNumberToken, RespList}

DefaultFlow == <<"s", "o", "r", "a", "_", "2", "_", "c", "r", "e", "a", "t", "e", "_",
    "t", "a", "s", "k">>
Flows == {JStr(DefaultFlow), JStr(<<"f">>)}
InitialProofs == {JStr(FirstPassMarker \o <<"x">>), JStr(FirstPassMarker \o ErrorToken(<<"0", ".", "1">>))}
Uuids == {<<"i", "1">>, <<"i", "2">>}

\* The inputs the second pass hashes for a response (none when it does not
\* run), and the digests they may get (two digests: one that meets the targets
\* of the responses, one that does not).
SecondPassInputs(resp, config) ==
  IF resp.t = "obj" /\ Get(resp, k_proofofwork, EmptyDict).t = "obj"
       /\ NeedsSecondPass(Get(resp, k_proofofwork, EmptyDict))
  THEN HashInputs(Get(Get(resp, k_proofofwork, EmptyDict), k_seed, EmptyStr).s, config)
  ELSE {}
FewDigests == {<<0, 0, 0>>, <<16, 0, 0>>}

\* build_openai_sentinel_token applied once to a flow, a challenge response,
\* an initial proof and a user agent.
InitToken ==
  /\ \E flow \in Flows, resp \in ChallengeResponses, pow_token \in InitialProofs,
        r \in Draws, id \in Uuids :
       \E sha3 \in [SecondPassInputs(resp, get_pow_config(JStr(SORA_APP_USER_AGENT), r))
                      -> FewDigests] :
         assembler = [pc |-> "call", flow |-> flow, resp |-> resp,
                      pow_token |-> pow_token, user_agent |-> JStr(SORA_APP_USER_AGENT),
                      r |-> r, id |-> id, sha3 |-> sha3,
                      result |-> Built(<<>>, 0, NoCall)]
  /\ environ = Absent /\ event = Absent /\ handler = Absent
  /\ net = Absent /\ solver = Absent
  /\ NoManager

BuildToken ==
  /\ assembler.pc = "call"
  /\ assembler' = [assembler EXCEPT
                     !.pc = "done",
                     !.result = build_openai_sentinel_token(
                                  assembler.flow, assembler.resp, assembler.pow_token,
                                  assembler.user_agent, assembler.r, assembler.id,
                                  assembler.sha3)]
  /\ UNCHANGED <<mvars, environ, event, handler, net, solver>>

NextToken == BuildToken

SpecToken == InitToken /\ [][NextToken]_vars

\* --------------------------------------------------- claims: the assembler
AssemblerDone == assembler.pc = "done"
TokenBuilt == AssemblerDone /\ assembler.result.raised = ""
\* The returned token, read back as JSON.
TokenDoc == Loads(assembler.result.token)
KeysOf(d) == {d.members[k][1] : k \in 1..Len(d.members)}
Field(d, key) == d.members[CHOOSE k \in 1..Len(d.members) : d.members[k][1] = key][2]
Has(d, key) == d.t = "obj" /\ key \in KeysOf(d)

OmitsTurnstileValue(resp) ==
  ~Has(resp, k_turnstile) \/ (Field(resp, k_turnstile).t = "obj" /\ ~Has(Field(resp, k_turnstile), k_dx))
OmitsToken(resp) == ~Has(resp, k_token)

\* C18: the returned token parses as a JSON object with exactly the keys p,
\* t, c, id, flow; p, id and flow are not null; t is the empty string when
\* the challenge response omits the turnstile sub-value, and c is the empty
\* string when it omits the verification token.
C18_TokenShape ==
  TokenBuilt =>
    /\ TokenDoc.ok /\ TokenDoc.val.t = "obj"
    /\ Len(TokenDoc.val.members) = 5
    /\ KeysOf(TokenDoc.val) = {k_p, k_t, k_c, k_id, k_flow}
    /\ Field(TokenDoc.val, k_p).t # "null"
    /\ Field(TokenDoc.val, k_id).t # "null"
    /\ Field(TokenDoc.val, k_flow).t # "null"
    /\ OmitsTurnstileValue(assembler.resp) => Field(TokenDoc.val, k_t) = EmptyStr
    /\ OmitsToken(assembler.resp) => Field(TokenDoc.val, k_c) = EmptyStr

\* A token built from a response that has a turnstile dict without dx and no
\* verification token.
C18_Witness ==
  /\ TokenBuilt /\ assembler.resp = RespNoDifficulty
  /\ Field(TokenDoc.val, k_t) = EmptyStr /\ Field(TokenDoc.val, k_c) = EmptyStr

\* C19: build_openai_sentinel_token never fails because of the shape of the
\* challenge response; the only failures are those the solver raises.
C19_NoShapeFailure ==
  AssemblerDone /\ assembler.result.raised # "" => assembler.result.by = "solver"

\* The response demands a second proof of work: required, with a seed and a
\* difficulty that are not empty.
Demands(resp) ==
  /\ Has(resp, k_proofofwork)
  /\ LET proofofwork == Field(resp, k_proofofwork) IN
     /\ Has(proofofwork, k_required) /\ JTruthy(Field(proofofwork, k_required))
     /\ Has(proofofwork, k_seed) /\ JTruthy(Field(proofofwork, k_seed))
     /\ Has(proofofwork, k_difficulty) /\ JTruthy(Field(proofofwork, k_difficulty))

\* C20: p is the caller's initial proof unchanged unless the response demands
\* a second proof of work with non-empty seed and difficulty; exactly then the
\* solver runs once more, on a fresh fingerprint, and p is the second-pass
\* marker followed by the solver's payload; the second-pass marker differs
\* from the first-pass marker of initial proofs.
C20_SecondPassOnly ==
  /\ SecondPassMarker # FirstPassMarker
  /\ AssemblerDone /\ assembler.result.solves > 0 =>
       /\ Demands(assembler.resp) /\ assembler.result.solves = 1
       /\ assembler.result.second =
            solve_pow(Field(Field(assembler.resp, k_proofofwork), k_seed),
                      Field(Field(assembler.resp, k_proofofwork), k_difficulty),
                      get_pow_config(assembler.user_agent, assembler.r), assembler.sha3)
  /\ TokenBuilt =>
       /\ Demands(assembler.resp) => assembler.result.solves = 1
       /\ Field(TokenDoc.val, k_p) =
            IF Demands(assembler.resp)
            THEN JStr(SecondPassMarker \o assembler.result.second.payload)
            ELSE assembler.pow_token
       /\ SubSeq(assembler.pow_token.s, 1, Len(FirstPassMarker)) = FirstPassMarker

\* A second pass that found a solution, and its proof in the token.
C20_Witness ==
  /\ TokenBuilt /\ assembler.resp = RespChallenge
  /\ assembler.result.solves = 1 /\ assembler.result.second.satisfied
  /\ Field(TokenDoc.val, k_p) = JStr(SecondPassMarker \o assembler.result.second.payload)

\* ----------------------------------------------------------------- handler
\* str.lower() of a character and of a text.
LowerChar(c) ==
  IF Ord(c) >= 65 /\ Ord(c) <= 90 THEN AsciiHigh[Ord(c) - 64] ELSE c
Lower(s) == [k \in 1..Len(s) |-> LowerChar(s[k])]

\* _get_header(headers, name), lines 41-47; headers is the sequence of the
\* dict's <<key, value>> items, None is NoneStr.
FirstNamed(headers, name) ==
  CHOOSE k \in 1..Len(headers) :
    /\ Lower(headers[k][1]) = Lower(name)
    /\ \A j \in 1..(k - 1) : Lower(headers[j][1]) # Lower(name)

get_header(headers, name) ==
  IF \E k \in 1..Len(headers) : Lower(headers[k][1]) = Lower(name)
  THEN headers[FirstNamed(headers, name)][2]
  ELSE NoneStr

\* base64.b64decode(s).decode("utf-8"): characters outside the alphabet are
\* discarded, the data ends at the first "=", missing padding is an error.
IsB64(c) == \E k \in 1..Len(B64Alphabet) : B64Alphabet[k] = c
B64Val(c) == (CHOOSE k \in 1..Len(B64Alphabet) : B64Alphabet[k] = c) - 1
IsB64OrPad(c) == IsB64(c) \/ c = "="

RECURSIVE B64Bytes(_)
B64Bytes(d) ==
  IF Len(d) < 2 THEN <<>>
  ELSE LET a == B64Val(d[1]) b == B64Val(d[2]) IN
       IF Len(d) = 2 THEN <<4 * a + b \div 16>>
       ELSE LET c == B64Val(d[3]) IN
            IF Len(d) = 3 THEN <<4 * a + b \div 16, 16 * (b % 16) + c \div 4>>
            ELSE <<4 * a + b \div 16, 16 * (b % 16) + c \div 4, 64 * (c % 4) + B64Val(d[4])>>
                   \o B64Bytes(SubSeq(d, 5, Len(d)))

CharOf(n) == IF n <= 95 THEN AsciiLow[n - 31] ELSE AsciiHigh[n - 96]

B64DecodeText(s) ==
  LET kept == SelectSeq(s, IsB64OrPad)
      data == IF \E k \in 1..Len(kept) : kept[k] = "="
              THEN SubSeq(kept, 1, (CHOOSE k \in 1..Len(kept) :
                                      kept[k] = "=" /\ \A j \in 1..(k - 1) : kept[j] # "=") - 1)
              ELSE kept
      pads == Len(SelectSeq(kept, LAMBDA c : c = "="))
      bytes == B64Bytes(data)
  IN IF Len(data) % 4 = 1 \/ (Len(data) % 4 = 2 /\ pads < 2) \/ (Len(data) % 4 = 3 /\ pads < 1)
     THEN [ok |-> FALSE, text |-> <<>>, error |-> "binascii.Error"]
     ELSE IF \E k \in 1..Len(bytes) : bytes[k] < 32 \/ bytes[k] > 126 \/ bytes[k] = 96
     THEN [ok |-> FALSE, text |-> <<>>, error |-> "UnicodeDecodeError"]
     ELSE [ok |-> TRUE, text |-> [k \in 1..Len(bytes) |-> CharOf(bytes[k])], error |-> ""]

\* ----------------------------------------------------- handler: the inputs
XLambdaKey == <<"x", "-", "l", "a", "m", "b", "d", "a", "-", "k", "e", "y">>
SharedKey == <<"k", "1">>
\* os.environ.get("LAMBDA_SHARED_KEY"): unset, empty, or a key.
SharedKeys == {NoneStr, <<>>, SharedKey}

\* event["headers"]; a missing or null headers is the empty dict of line 154.
HeadersNone == <<>>
HeadersGood == << <<XLambdaKey, SharedKey>> >>
HeadersGoodCase == << <<<<"X", "-", "L", "a", "m", "b", "d", "a", "-", "K", "e", "y">>, SharedKey>> >>
HeadersWrong == << <<XLambdaKey, <<"K", "1">>>> >>
HeadersOther == << <<<<"a", "c", "c", "e", "p", "t">>, SharedKey>> >>
HeadersTwice == << <<<<"X", "-", "L", "a", "m", "b", "d", "a", "-", "K", "e", "y">>, <<"z">>>>, <<XLambdaKey, SharedKey>> >>
HeaderSets == {HeadersNone, HeadersGood, HeadersGoodCase, HeadersWrong, HeadersOther, HeadersTwice}

\* event["body"] as text.
BodyEmptyObject ==
  <<"{", "}">>
BodyNoPayload ==
  <<"{", "\"", "t", "o", "k", "e", "n", "\"", ":", "\"", "t", "k", "\"", "}">>
BodyNoToken ==
  <<"{", "\"", "p", "a", "y", "l", "o", "a", "d", "\"", ":", "{", "\"", "a", "\"", ":", "1", "}", "}">>
BodyEmptyToken ==
  <<"{", "\"", "t", "o", "k", "e", "n", "\"", ":", "\"", "\"", ",", "\"", "p", "a", "y", "l", "o", "a", "d", "\"", ":", "{", "\"", "a", "\"", ":", "1", "}", "}">>
BodyEmptyPayload ==
  <<"{", "\"", "t", "o", "k", "e", "n", "\"", ":", "\"", "t", "k", "\"", ",", "\"", "p", "a", "y", "l", "o", "a", "d", "\"", ":", "{", "}", "}">>
BodyValid ==
  <<"{", "\"", "t", "o", "k", "e", "n", "\"", ":", "\"", "t", "k", "\"", ",", "\"", "p", "a", "y", "l", "o", "a", "d", "\"", ":", "{", "\"", "a", "\"", ":", "1", "}", "}">>
BodyValidAlias ==
  <<"{", "\"", "t", "o", "k", "e", "n", "\"", ":", "\"", "t", "k", "\"", ",", "\"", "n", "f", "_", "c", "r", "e", "a", "t", "e", "\"", ":", "{", "\"", "a", "\"", ":", "1", "}", ",", "\"", "u", "s", "e", "r", "_", "a", "g", "e", "n", "t", "\"", ":", "\"", "u", "a", "\"", ",", "\"", "f", "l", "o", "w", "\"", ":", "\"", "f", "\"", "}">>
BodyNotJson ==
  <<"{", "\"", "t", "o", "k", "e", "n", "\"">>
BodyList ==
  <<"[", "]">>
BodyNull ==
  <<"n", "u", "l", "l">>

BodyTexts == {BodyEmptyObject, BodyNoPayload, BodyNoToken, BodyEmptyToken, BodyEmptyPayload,
              BodyValid, BodyValidAlias, BodyNotJson, BodyList, BodyNull}

Event(headers, body, isBase64Encoded) ==
  [headers |-> headers, body |-> body, isBase64Encoded |-> isBase64Encoded]

\* Events that differ in the key and the headers, and events that differ in
\* the body: absent, empty, plain or base64, and base64 announced for a body
\* that is plain.
GateCases ==
  {[environ |-> SharedKey, event |-> Event(h, BodyValid, FALSE)] : h \in HeaderSets}
  \cup {[environ |-> k, event |-> Event(h, BodyNoPayload, FALSE)] : k \in {NoneStr, <<>>}, h \in HeaderSets}
BodyCases ==
  {[environ |-> SharedKey, event |-> Event(HeadersGood, b, FALSE)] : b \in BodyTexts \cup {NoneStr, <<>>}}
  \cup {[environ |-> NoneStr, event |-> Event(HeadersNone, B64Encode(Encode(b)), TRUE)] : b \in BodyTexts}
  \cup {[environ |-> NoneStr, event |-> Event(HeadersNone, b, TRUE)] : b \in {NoneStr, BodyNoPayload}}
  \cup {[environ |-> SharedKey, event |-> Event(HeadersWrong, b, FALSE)] : b \in {BodyNoToken, BodyNotJson}}
Invocations == GateCases \cup BodyCases

\* ------------------------------------------------- handler: lambda_handler
k_error == <<"e", "r", "r", "o", "r">>
k_payload == <<"p", "a", "y", "l", "o", "a", "d">>
k_nf_create == <<"n", "f", "_", "c", "r", "e", "a", "t", "e">>
k_user_agent == <<"u", "s", "e", "r", "_", "a", "g", "e", "n", "t">>

\* What the invocation ends with: a returned response, or an exception that
\* leaves lambda_handler.
NoResult == [kind |-> "none", statusCode |-> 0, body |-> <<>>, headers |-> FALSE, error |-> ""]
Reply(statusCode, body, headers) ==
  [NoResult EXCEPT !.kind = "return", !.statusCode = statusCode, !.body = body,
                   !.headers = headers]
Crash(error) == [NoResult EXCEPT !.kind = "raise", !.error = error]

\* What post_json gives back: a status and a body, or an exception that is
\* no HTTPError (lines 143-150).
Answer(status, body) == [raised |-> FALSE, status |-> status, body |-> body]
NoAnswer == [raised |-> TRUE, status |-> 0, body |-> <<>>]
Unverified == Answer(0, <<>>)

\* The frame of lambda_handler; log is the history of the phases it went
\* through, verified the history of the verification endpoint's answer.
Invoked ==
  [pc |-> "gate", log |-> <<>>, data |-> JNull, token |-> JNull, payload |-> JNull,
   user_agent |-> JNull, flow |-> JNull, pow_token |-> <<>>, exhausted |-> FALSE,
   sentinel_body |-> <<>>, sentinel_token |-> <<>>, second |-> NoCall,
   verified |-> Unverified, result |-> NoResult]

Finish(h, phase, result) ==
  [h EXCEPT !.pc = "done", !.log = Append(h.log, phase), !.result = result]
Proceed(h, phase, pc) == [h EXCEPT !.pc = pc, !.log = Append(h.log, phase)]

\* The test of lines 156-158.
KeyRejectedIfProvided(expected_key, headers) ==
  /\ Truthy(expected_key)
  /\ get_header(headers, XLambdaKey) # NoneStr
  /\ get_header(headers, XLambdaKey) # expected_key

KeyRejected(expected_key, headers) ==
  /\ Truthy(expected_key)
  /\ get_header(headers, XLambdaKey) # expected_key

\* Lines 154-159.
Gate ==
  /\ handler.pc = "gate"
  /\ handler' =
       IF KeyRejected(environ, event.headers)
       THEN Finish(handler, "gate",
                   Reply(401, DumpsDefault(JObj(<< <<k_error, JStr(<<"i", "n", "v", "a", "l", "i", "d", " ", "l", "a", "m", "b", "d", "a", " ", "k", "e", "y">>)>> >>)), FALSE))
       ELSE Proceed(handler, "gate", "body")
  /\ UNCHANGED <<mvars, environ, event, net, solver, assembler>>

\* Lines 161-164.
ReadBody ==
  /\ handler.pc = "body"
  /\ LET given == IF Truthy(event.body) THEN event.body ELSE <<"{", "}">>
         decoded == IF event.isBase64Encoded THEN B64DecodeText(given)
                    ELSE [ok |-> TRUE, text |-> given, error |-> ""]
         data == IF Len(decoded.text) > 0 THEN Loads(decoded.text) ELSE Parsed(EmptyDict, 0)
     IN handler' =
          IF ~decoded.ok THEN Finish(handler, "body", Crash(decoded.error))
          ELSE IF ~data.ok THEN Finish(handler, "body", Crash("JSONDecodeError"))
          ELSE [Proceed(handler, "body", "validate") EXCEPT !.data = data.val]
  /\ UNCHANGED <<mvars, environ, event, net, solver, assembler>>

\* x or y on Python values.
Or(x, y) == IF JTruthy(x) THEN x ELSE y

\* The test of line 168.
MissingBoth(token, payload) == ~JTruthy(token) /\ ~JTruthy(payload)

Missing(token, payload) == ~JTruthy(token) \/ ~JTruthy(payload)

\* Lines 166-175.
Validate ==
  /\ handler.pc = "validate"
  /\ LET data == handler.data
         token == Get(data, k_token, JNull)
         payload == Or(Get(data, k_payload, JNull), Get(data, k_nf_create, JNull))
     IN handler' =
          IF data.t # "obj" THEN Finish(handler, "validate", Crash("AttributeError"))
          ELSE IF Missing(token, payload)
          THEN Finish(handler, "validate",
                      Reply(400, DumpsDefault(JObj(<< <<k_error, JStr(<<"t", "o", "k", "e", "n", " ", "a", "n", "d", " ", "p", "a", "y", "l", "o", "a", "d", " ", "r", "e", "q", "u", "i", "r", "e", "d">>)>> >>)), FALSE))
          ELSE [Proceed(handler, "validate", "pow") EXCEPT
                  !.data = JNull, !.token = token, !.payload = payload,
                  !.user_agent = Or(Get(data, k_user_agent, JNull), JStr(SORA_APP_USER_AGENT)),
                  !.flow = Or(Get(data, k_flow, JNull), JStr(DefaultFlow))]
  /\ UNCHANGED <<mvars, environ, event, net, solver, assembler>>

\* Line 177: get_pow_token with its random seed and fingerprint.
InitialProof ==
  /\ handler.pc = "pow"
  /\ \E seed \in TextSeeds, r \in Draws :
       \E sha3 \in [HashInputs(seed, get_pow_config(handler.user_agent, r)) -> FewDigests] :
         LET solution == get_pow_token(handler.user_agent, seed, r, sha3) IN
         handler' = [Proceed(handler, "pow", "verify") EXCEPT
                       !.pow_token = solution.payload,
                       !.exhausted = ~solution.satisfied]
  /\ UNCHANGED <<mvars, environ, event, net, solver, assembler>>

Oops == <<"o", "o", "p", "s">>
VerificationAnswers ==
  {Answer(200, DumpsCompact(resp)) :
     resp \in {RespEmpty, RespPlain, RespChallenge, RespEmptySeed, RespNullProof, RespOddDifficulty}}
  \cup {Answer(200, Oops), Answer(201, DumpsCompact(RespPlain)), Answer(403, DumpsCompact(RespPlain)),
        Answer(500, Oops), NoAnswer}
TaskAnswers ==
  {Answer(200, DumpsCompact(JObj(<< <<k_id, JStr(<<"t", "1">>)>> >>))), Answer(400, Oops), NoAnswer}

Request(url, body, token, sentinel_token) ==
  [url |-> url, body |-> body, token |-> token, sentinel_token |-> sentinel_token]

\* The test of line 189.
PassesAny2xx(status) == status >= 200 /\ status < 300

Passes(status) == status = 200

\* Lines 178-190: the verification request and its answer.
VerificationCall(answer) ==
  /\ handler.pc = "verify"
  /\ \E id \in Uuids :
       net' = Append(net, Request("sentinel/req",
                                  DumpsDefault(JObj(<< <<k_p, JStr(handler.pow_token)>>,
                                                       <<k_flow, handler.flow>>,
                                                       <<k_id, JStr(id)>> >>)),
                                  handler.token, <<>>))
  /\ handler' =
       IF answer.raised THEN Finish(handler, "verify", Crash("URLError"))
       ELSE IF ~Passes(answer.status)
       THEN [Finish(handler, "verify", Reply(answer.status, answer.body, FALSE)) EXCEPT
               !.verified = answer]
       ELSE [Proceed(handler, "verify", "assemble") EXCEPT
               !.sentinel_body = answer.body, !.verified = answer]
  /\ UNCHANGED <<mvars, environ, event, solver, assembler>>

\* Lines 192-193.
Assemble ==
  /\ handler.pc = "assemble"
  /\ LET sentinel_resp == Loads(handler.sentinel_body) IN
     IF ~sentinel_resp.ok
     THEN handler' = Finish(handler, "assemble", Crash("JSONDecodeError"))
     ELSE \E r \in Draws, id \in Uuids :
            \E sha3 \in [SecondPassInputs(sentinel_resp.val,
                                             get_pow_config(handler.user_agent, r)) -> FewDigests] :
              LET built == build_openai_sentinel_token(
                             handler.flow, sentinel_resp.val, JStr(handler.pow_token),
                             handler.user_agent, r, id, sha3)
              IN handler' =
                   IF built.raised # ""
                   THEN [Finish(handler, "assemble", Crash(built.raised)) EXCEPT
                           !.second = built.second]
                   ELSE [Proceed(handler, "assemble", "create") EXCEPT
                           !.sentinel_body = <<>>, !.sentinel_token = built.token,
                           !.second = built.second]
  /\ UNCHANGED <<mvars, environ, event, net, solver, assembler>>

\* Lines 195-214: the task-creation request and its answer.
TaskCallEarly(answer) ==
  /\ handler.pc \in {"verify", "create"}
  /\ net' = Append(net, Request("nf/create", DumpsDefault(handler.payload),
                                handler.token, handler.sentinel_token))
  /\ handler' =
       IF answer.raised THEN Finish(handler, "create", Crash("URLError"))
       ELSE Finish(handler, "create", Reply(answer.status, answer.body, TRUE))
  /\ UNCHANGED <<mvars, environ, event, solver, assembler>>

TaskCall(answer) ==
  /\ handler.pc = "create"
  /\ net' = Append(net, Request("nf/create", DumpsDefault(handler.payload),
                                handler.token, handler.sentinel_token))
  /\ handler' =
       IF answer.raised THEN Finish(handler, "create", Crash("URLError"))
       ELSE Finish(handler, "create", Reply(answer.status, answer.body, TRUE))
  /\ UNCHANGED <<mvars, environ, event, solver, assembler>>

\* One invocation of lambda_handler.
InitLambda ==
  /\ \E i \in Invocations : environ = i.environ /\ event = i.event
  /\ handler = Invoked
  /\ net = <<>>
  /\ solver = Absent /\ assembler = Absent
  /\ NoManager

NextLambda ==
  \/ Gate
  \/ ReadBody
  \/ Validate
  \/ InitialProof
  \/ \E answer \in VerificationAnswers : VerificationCall(answer)
  \/ Assemble
  \/ \E answer \in TaskAnswers : TaskCall(answer)

SpecLambda == InitLambda /\ [][NextLambda]_vars

\* ----------------------------------------------------- claims: the handler
HandlerDone == handler.pc = "done"
Returned401 == HandlerDone /\ handler.result.kind = "return" /\ handler.result.statusCode = 401
Returned400 == HandlerDone /\ handler.result.kind = "return" /\ handler.result.statusCode = 400
Logged(phase) == \E k \in 1..Len(handler.log) : handler.log[k] = phase
Times(phase) == Cardinality({k \in 1..Len(handler.log) : handler.log[k] = phase})

\* C11: when the verification endpoint answers with a status other than 200,
\* lambda_handler returns exactly that status and that body, makes no second
\* verification call and never makes the task-creation call.
C11_VerificationFailurePassedThrough ==
  handler.verified.status \notin {0, 200} =>
    /\ HandlerDone /\ handler.result.kind = "return"
    /\ handler.result.statusCode = handler.verified.status
    /\ handler.result.body = handler.verified.body
    /\ Len(net) = 1 /\ net[1].url = "sentinel/req"
    /\ Times("verify") = 1 /\ ~Logged("assemble") /\ ~Logged("create")

\* A 403 of the verification endpoint handed back with its body.
C11_Witness ==
  /\ HandlerDone /\ handler.verified.status = 403
  /\ handler.result.statusCode = 403 /\ handler.result.body = DumpsCompact(RespPlain)
  /\ Len(net) = 1

\* The x-lambda-key header of the event does not match the configured key.
KeyMismatch == Truthy(environ) /\ get_header(event.headers, XLambdaKey) # environ

\* C13: the shared-secret gate comes first: an invocation whose x-lambda-key
\* header does not match the configured key ends with 401 and has read no
\* body, computed no proof of work and sent no request.
C13_GateFirst ==
  KeyMismatch =>
    /\ handler.log \in {<<>>, <<"gate">>}
    /\ handler.log = <<"gate">> => Returned401
    /\ handler.data = JNull /\ handler.pow_token = <<>> /\ net = <<>>

\* A key that differs from the configured one in letter case only: 401.
C13_Witness ==
  /\ Returned401 /\ event.headers = HeadersWrong /\ environ = SharedKey
  /\ net = <<>>

\* The body of an event as lambda_handler reads it (lines 161-164),
\* tabulated over the events of Invocations.
BodyTextOf(e) ==
  LET given == IF Truthy(e.body) THEN e.body ELSE <<"{", "}">> IN
  IF e.isBase64Encoded THEN B64DecodeText(given)
  ELSE [ok |-> TRUE, text |-> given, error |-> ""]
BodyDocOf(e) ==
  LET text == BodyTextOf(e) IN
  IF text.ok /\ Len(text.text) > 0 THEN Loads(text.text) ELSE Parsed(EmptyDict, 0)
Events == {i.event : i \in Invocations}
DecodedBodies == [e \in Events |-> BodyTextOf(e)]
BodyDocs == [e \in Events |-> BodyDocOf(e)]
BodyText == DecodedBodies[event]
BodyDoc == BodyDocs[event]
BodyIsObject == BodyText.ok /\ BodyDoc.ok /\ BodyDoc.val.t = "obj"
Carries(d, key) == Has(d, key) /\ JTruthy(Field(d, key))
LacksToken == ~Carries(BodyDoc.val, k_token)
LacksPayload == ~Carries(BodyDoc.val, k_payload) /\ ~Carries(BodyDoc.val, k_nf_create)

\* C12: a request that passed the gate and whose body has no access token or
\* no task payload is rejected with 400, before any proof of work and before
\* any network call; and no invocation reaches the proof of work or the
\* network without a body that carries both.
C12_MissingFieldsRejected ==
  /\ ~KeyMismatch /\ BodyIsObject /\ (LacksToken \/ LacksPayload) =>
       /\ ~Logged("pow") /\ handler.pow_token = <<>> /\ net = <<>>
       /\ HandlerDone => Returned400
  /\ Logged("pow") \/ net # <<>> => BodyIsObject /\ ~LacksToken /\ ~LacksPayload

\* A base64 body without a token: 400 and nothing sent.
C12_Witness ==
  /\ Returned400 /\ event.isBase64Encoded /\ BodyText.text = BodyNoToken
  /\ net = <<>> /\ ~Logged("pow")

\* The proof sent as p in the k-th request, and the proof in the composite
\* token.
SentProof(k) == Field(Loads(net[k].body).val, k_p)
ComposedProof == Field(Loads(handler.sentinel_token).val, k_p)
Fallbacks == {FallbackOf(seed) : seed \in TextSeeds}
SecondExhausted == handler.second.raised = "" /\ handler.second.payload # <<>> /\ ~handler.second.satisfied
UpstreamAnswer ==
  \/ handler.verified.status \notin {0, 200}
       /\ handler.result = Reply(handler.verified.status, handler.verified.body, FALSE)
  \/ Logged("create")
       /\ \E answer \in TaskAnswers : handler.result = Reply(answer.status, answer.body, TRUE)

\* C21: exhaustion of the proof of work does not end the invocation.  After
\* an exhausted first solve the verification request is the next step and
\* carries "gAAAAAC" + fallback as p; after an exhausted second solve the
\* composite token carries "gAAAAAB" + fallback as p and the task-creation
\* call is the next step, carrying that token; and whatever an exhausted
\* invocation returns is the status and body of an upstream answer.
C21_ExhaustionForwarded ==
  /\ handler.exhausted =>
       /\ \E f \in Fallbacks : handler.pow_token = FirstPassMarker \o f
       /\ handler.pc = "verify"
            \/ (Len(net) >= 1 /\ net[1].url = "sentinel/req"
                  /\ SentProof(1) = JStr(handler.pow_token))
  /\ SecondExhausted =>
       /\ handler.second.payload \in Fallbacks
       /\ ComposedProof = JStr(SecondPassMarker \o handler.second.payload)
       /\ handler.pc = "create"
            \/ (HandlerDone /\ Len(net) = 2 /\ net[2].url = "nf/create"
                  /\ net[2].sentinel_token = handler.sentinel_token)
  /\ (handler.exhausted \/ SecondExhausted) /\ HandlerDone /\ handler.result.kind = "return"
       => UpstreamAnswer

\* Both solves exhausted, and the task-creation call made all the same.
C21_Witness ==
  /\ handler.exhausted /\ SecondExhausted /\ HandlerDone
  /\ Len(net) = 2 /\ handler.result.statusCode = 400 /\ handler.result.headers

\* The phases of lambda_handler in the order of its code.
Phases == <<"gate", "body", "validate", "pow", "verify", "assemble", "create">>
SecondSolved == handler.second # NoCall

\* C24: the phases of one invocation occur in the order initial solve,
\* verification request carrying that proof, second solve and token
\* assembly, task-creation call carrying the assembled token; there is at
\* most one verification call and at most one task-creation call, and the
\* task-creation call comes only after a 200 verification answer.
C24_PhaseOrder ==
  /\ Len(handler.log) <= Len(Phases) /\ handler.log = SubSeq(Phases, 1, Len(handler.log))
  /\ Len(net) <= 2
  /\ Len(net) = (IF Logged("verify") THEN 1 ELSE 0) + (IF Logged("create") THEN 1 ELSE 0)
  /\ Len(net) >= 1 =>
       /\ net[1].url = "sentinel/req" /\ Logged("pow")
       /\ SentProof(1) = JStr(handler.pow_token)
  /\ SecondSolved => handler.verified.status = 200 /\ Len(net) >= 1
  /\ handler.sentinel_token # <<>> =>
       /\ handler.verified.status = 200
       /\ ComposedProof = IF SecondSolved THEN JStr(SecondPassMarker \o handler.second.payload)
                          ELSE JStr(handler.pow_token)
  /\ Len(net) = 2 =>
       /\ net[2].url = "nf/create" /\ Logged("assemble")
       /\ handler.verified.status = 200
       /\ handler.sentinel_token # <<>> /\ net[2].sentinel_token = handler.sentinel_token

\* A whole invocation: both solves, both calls, the task created.
C24_Witness ==
  /\ HandlerDone /\ handler.log = Phases /\ SecondSolved /\ handler.second.satisfied
  /\ Len(net) = 2 /\ handler.result.statusCode = 200

\* ------------------------------------------ create_task: every relay answer
\* One caller of create_task over a fixed configuration; each relay answers
\* in one of all the ways a relay may answer.
RelayConfigs ==
  {<<RowOff>>, <<RowNoUrl>>, <<RowNoKey>>,
   <<RowA>>, <<RowA, RowOff, RowB>>, <<RowA, RowEmptyKey, RowB, RowC>>}

InitRelay ==
  /\ InitManager
  /\ db \in RelayConfigs
  /\ relay \in [AllUrls -> RelayKinds]
  /\ track = "seq"

NextRelay ==
  \/ \E p \in SeqCallers : Uncounted /\ CallCreateTask(p)
  \/ \E p \in SeqCallers : DbRead(p)
  \/ \E p \in SeqCallers : FetchReturn(p)
  \/ \E p \in SeqCallers : CtEnabled(p)
  \/ \E p \in SeqCallers : CtConfig(p)
  \/ \E p \in SeqCallers : CtSelect(p)
  \/ \E p \in SeqCallers : PostReturn(p, relay[call[p].endpoint.url])
  \/ \E p \in SeqCallers : Return(p)

SpecRelay == InitRelay /\ [][NextRelay]_vars

\* What the relay at url u answers, and whether that answer is HTTP 200 with
\* a JSON body that carries an id or a task_id.
AnswerOf(u) == Response(relay[u], u)
CarriesId(resp) == Truthy(resp.id) \/ Truthy(resp.task_id)
Accepted(resp) == ~resp.raised /\ resp.status_code = 200 /\ resp.is_json /\ CarriesId(resp)
IdOf(resp) == IF Truthy(resp.id) THEN resp.id ELSE resp.task_id

\* C22: an attempt succeeds exactly when the relay answers HTTP 200 with a
\* JSON body carrying an id or a task_id, and create_task then returns that
\* id; after any other answer the attempt is counted as failed, its error is
\* kept, and create_task goes on to the next selection (or, after the last
\* attempt, to the aggregate error).
C22_SuccessIffIdIn200 ==
  [][\A p \in SeqCallers :
       (call[p].pc = "post" /\ call'[p].pc # "post") =>
         LET resp == AnswerOf(call[p].endpoint.url) IN
         IF Accepted(resp)
         THEN /\ call'[p].pc = "done"
              /\ call'[p].result = Returned(IdOf(resp))
         ELSE /\ call'[p].attempt = call[p].attempt + 1
              /\ call'[p].last_error # NoneStr
              /\ call'[p].result.kind # "return"
              /\ IF call[p].attempt + 1 < call[p].n
                 THEN call'[p].pc \in {"fetch", "ct_gne"}
                 ELSE call'[p].pc = "done" /\ call'[p].result.status_code = 502]_vars

\* A relay answers 200 without an id, the next one with a task_id: the task
\* id of the second is returned.
C22_Witness ==
  /\ PoolSize >= 2
  /\ CreateTaskDone(1)
  /\ call[1].attempted = <<PoolUrl(1), PoolUrl(2)>>
  /\ relay[PoolUrl(1)] = "noid" /\ relay[PoolUrl(2)] = "ok_task_id"
  /\ call[1].result = Returned(<<"task-">> \o PoolUrl(2))

\* The errors single attempts may end with.
AttemptErrors == {PostCreateTask(AnswerOf(u)).value : u \in {v \in AllUrls : ~Accepted(AnswerOf(v))}}
FailFastErrors == {HTTPException(400, m) : m \in {NotEnabledMsg, NoUrlsMsg, NoKeyMsg}}

\* C23: create_task ends in one of three ways only: the task id of a
\* successful attempt, a fail-fast configuration error before any attempt,
\* or the one aggregate 502 error; the error of a single attempt is never
\* what the caller gets.
C23_NoAttemptErrorEscapes ==
  \A p \in SeqCallers :
    CreateTaskDone(p) =>
      LET att == call[p].attempted
          result == call[p].result
      IN
      /\ \/ /\ result.kind = "return" /\ att # <<>>
            /\ Accepted(AnswerOf(att[Len(att)]))
            /\ result = Returned(IdOf(AnswerOf(att[Len(att)])))
         \/ result \in FailFastErrors /\ att = <<>>
         \/ /\ att # <<>>
            /\ result = HTTPException(502, AllFailedMsg(PostCreateTask(AnswerOf(att[Len(att)])).value))
      /\ result.kind = "raise" => result.value \notin AttemptErrors

\* Two attempts fail in different ways and the caller gets the one 502.
C23_Witness ==
  /\ CreateTaskDone(1)
  /\ Len(call[1].attempted) = 2
  /\ relay[call[1].attempted[1]] = "neterr" /\ relay[call[1].attempted[2]] = "badjson"
  /\ call[1].result.status_code = 502

\* ------------------------------------------------- claims: the cache again
Refreshing(c) == c.pc \in {"fetch", "fetched"}

\* C25: when the last of several overlapping _get_config calls completes,
\* the cache holds the rows of the most recent read of the configuration
\* source.
C25_LatestReadCached ==
  [][\A p \in Callers :
       (/\ call[p].pc = "fetched" /\ call'[p].pc # "fetched"
        /\ \A q \in Callers \ {p} : ~Refreshing(call[q]))
         => cache' = <<call[p].latest>>]_vars

\* ----------------------------------------------- _get_endpoints on its own
\* _get_endpoints applied to every list of at most MaxRows rows.
MaxRows == 3

RowBlank == Row(TRUE, <<" ">>, <<"7">>)
RowEmptyUrl == Row(TRUE, <<>>, <<"8">>)
PoolRows == {RowA, RowB, RowNoKey, RowEmptyKey, RowOff, RowNoUrl, RowBlank, RowEmptyUrl}
RowLists == UNION {[1..n -> PoolRows] : n \in 0..MaxRows}

InitPool ==
  /\ InitManager
  /\ db \in RowLists
  /\ relay = [u \in AllUrls |-> "ok_id"]
  /\ track = "seq"

\* Lines 46-61, with the rows of the source as the argument.
BuildPool(p) ==
  /\ running = 0
  /\ call[p].pc = "idle"
  /\ call' = [call EXCEPT ![p] = [Idle EXCEPT !.op = "_get_endpoints", !.pc = "done",
                                               !.configs = db,
                                               !.result = Returned(GetEndpoints(db))]]
  /\ UNCHANGED <<db, relay, now, cache, cacheTime, cursor, lock, running, calls, track,
                 cacheReadAt, cacheStale, lastLen, lastRead, selLog>>
  /\ UNCHANGED lvars

NextPool == \E p \in SeqCallers : BuildPool(p)

SpecPool == InitPool /\ [][NextPool]_vars

\* The rows that are enabled and have a non-empty url and a non-empty key.
Eligible(cfg) ==
  cfg.lambda_enabled /\ Truthy(cfg.lambda_api_url) /\ Truthy(cfg.lambda_api_key)
EligibleRows(configs) == SelectSeq(configs, Eligible)

\* C26: the pool _get_endpoints builds is, in the order of the rows, the
\* rows that are enabled and have a non-empty url and a non-empty key; every
\* endpoint of the pool has a non-empty url and a non-empty key; the rows are
\* left as they were.
C26_PoolIsEligibleRows ==
  \A p \in SeqCallers :
    (call[p].op = "_get_endpoints" /\ call[p].pc = "done") =>
      LET pool == call[p].result.value
          rows == EligibleRows(db)
      IN
      /\ Len(pool) = Len(rows)
      /\ \A k \in 1..Len(rows) :
           pool[k] = [url |-> Strip(rows[k].lambda_api_url), key |-> rows[k].lambda_api_key]
      /\ \A k \in 1..Len(pool) : pool[k].url # <<>> /\ pool[k].key # <<>>
      /\ call[p].configs = db

\* ------------------------------------- create_task under a running clock
\* time.time() is read anew on every entry of _get_config (line 26), and two
\* entries within one run of a coroutine do not read the same time.  The one
\* difference that changes a test is the clock passing the expiry of the
\* cache between two entries: the first is served from the cache, the second
\* fetches.
Elapse ==
  /\ running # 0
  /\ cache # <<>> /\ now - cacheTime = cache_ttl
  /\ now + 1 <= MaxTime
  /\ now' = now + 1
  /\ UNCHANGED <<db, relay, cache, cacheTime, cursor, lock, running, call, calls,
                 track, cacheReadAt, cacheStale, lastLen, lastRead, selLog>>
  /\ UNCHANGED lvars

\* Concurrent create_task calls while the configuration changes, the cache
\* expires or is invalidated.
NextClock ==
  \/ \E p \in Callers : Counted /\ CallCreateTask(p)
  \/ InvalidateCache
  \/ \E p \in Callers : DbRead(p)
  \/ \E p \in Callers : FetchReturn(p)
  \/ \E p \in Callers : CtEnabled(p)
  \/ \E p \in Callers : CtConfig(p)
  \/ \E p \in Callers : CtSelect(p)
  \/ \E p \in Callers : \E k \in ConcKinds : PostReturn(p, k)
  \/ \E p \in Callers : Return(p)
  \/ \E d \in {cache_ttl, cache_ttl + 1} : Tick(d)
  \/ Elapse
  \/ \E c \in DbConfigsConc : DbChange(c)

SpecClock == Init /\ [][NextClock]_vars

\* ------------------------------------------ claims: the aggregate error
\* C27: whenever create_task raises the aggregate 502 error, it has attempted
\* at least one endpoint and the detail carries the error of an attempt,
\* never an absent one, also while the configuration changes under the loop.
C27_AggregateHasRealError ==
  \A p \in Callers :
    (CreateTaskDone(p) /\ call[p].result.kind = "raise" /\ call[p].result.status_code = 502) =>
      /\ call[p].attempted # <<>>
      /\ call[p].last_error # NoneStr
      /\ call[p].result.value # AllFailedMsg(NoneStr)

\* ------------------------------------------------ create_task: termination
\* The event loop resumes every coroutine that is ready, every configuration
\* fetch is answered and every POST returns or times out (client timeout 30,
\* line 172).
Fairness ==
  \A p \in Callers :
    /\ WF_vars(DbRead(p))
    /\ WF_vars(FetchReturn(p))
    /\ WF_vars(GneSelect(p))
    /\ WF_vars(CtEnabled(p))
    /\ WF_vars(CtConfig(p))
    /\ WF_vars(CtSelect(p))
    /\ WF_vars(\E k \in ConcKinds : PostReturn(p, k))
    /\ WF_vars(Return(p))

SpecLive == Init /\ [][Next]_vars /\ Fairness

InCreateTask(p) == call[p].op = "create_task"

\* C28: every create_task invocation terminates, with a task id or an error:
\* its loop makes at most |pool| iterations, the lock is free whenever the
\* event loop is given up, and an invocation that has started reaches its
\* end whatever the other callers do.
C28_CreateTaskTerminates ==
  /\ [](\A p \in Callers :
          InCreateTask(p) => call[p].attempt <= call[p].n /\ Len(call[p].attempted) <= call[p].n)
  /\ [](running = 0 => lock = 0)
  /\ \A p \in Callers : InCreateTask(p) ~> (InCreateTask(p) /\ call[p].pc = "done")

\* An invocation has swept its pool of two and ended while another one is
\* suspended on its POST.
C28_Witness ==
  /\ InCreateTask(1) /\ call[1].pc = "done" /\ call[1].n = 2 /\ call[1].attempt = 2
  /\ InCreateTask(2) /\ call[2].pc = "post"

====
